---- MODULE Spec2Model ----
(***************************************************************************)
(* UR3 kinematics: the URDF forward-kinematics chain                       *)
(* (src/urdf_forward_kinematics.py) and the multi-start damped             *)
(* least-squares inverse-kinematics solver (src/inverse_kinematics.py).    *)
(*                                                                         *)
(* Numbers.  TLC has integers only, so the model is a fixed-point one:     *)
(*   - a joint angle is an integer number of eighth turns (pi/4), the      *)
(*     finest grid that holds all eight structured seeds exactly;          *)
(*   - a length is an integer number of 1e-5 m (every link length of the   *)
(*     URDF is a multiple of it);                                          *)
(*   - an entry of a rotation block is an integer number of 1/Scale.       *)
(* On quarter turns cos and sin are 0 or +-1 and every product below is    *)
(* exact.                                                                  *)
(***************************************************************************)
EXTENDS Integers, Sequences, FiniteSets, TLC

\* ------------------------------------------------------------------------
\* Units
\* ------------------------------------------------------------------------

\* Fixed-point denominator of a rotation entry (1.0 is Scale).
Scale == 10000

\* np.pi, in eighth turns.
Pi == 4

TwoPi == 2 * Pi

HalfPi == Pi \div 2

QuarterPi == Pi \div 4

\* One eighth turn in units of 1e-5 rad (pi/4 = 0.78540 rad).
EighthTurnRad5 == 78540

Abs(x) == IF x < 0 THEN -x ELSE x

\* x / Scale rounded to the nearest integer (half away from zero).
Round(x) == IF x >= 0 THEN (x + Scale \div 2) \div Scale
            ELSE -(((-x) + Scale \div 2) \div Scale)

\* ------------------------------------------------------------------------
\* np.cos / np.sin on the eighth-turn grid
\* ------------------------------------------------------------------------

\* cos(k * pi/4) * Scale for k = 0..7 (sqrt(2)/2 = 0.7071).
CosTable == <<10000, 7071, 0, -7071, -10000, -7071, 0, 7071>>

Cos(angle) == CosTable[(angle % 8) + 1]

Sin(angle) == CosTable[((angle - 2) % 8) + 1]

\* ------------------------------------------------------------------------
\* 4x4 homogeneous transforms: rows 1..3 hold the rotation block (entries
\* in 1/Scale) and the translation (1e-5 m); row 4 is [0, 0, 0, 1].
\* ------------------------------------------------------------------------

\* np.eye(4)
Eye4 == << <<Scale, 0, 0, 0>>, <<0, Scale, 0, 0>>, <<0, 0, Scale, 0>>, <<0, 0, 0, 1>> >>

\* A function on 1..n as a tuple, its entries evaluated.
AsTuple(f) == f \o <<>>

\* Entry (i, j) of A @ B for two homogeneous transforms, i = 1..3: the
\* rotation block times column j of B, plus A's translation in column 4.
MatMulEntry(A, B, i, j) ==
    Round(A[i][1] * B[1][j] + A[i][2] * B[2][j] + A[i][3] * B[3][j])
        + (IF j = 4 THEN A[i][4] ELSE 0)

\* A @ B for two homogeneous transforms (both operands are evaluated once,
\* then multiplied).
MatMul(A, B) ==
    CHOOSE M \in { AsTuple([i \in 1..4 |->
                       IF i = 4 THEN <<0, 0, 0, 1>>
                       ELSE AsTuple([j \in 1..4 |-> MatMulEntry(a, b, i, j)])]) :
                   a \in {A}, b \in {B} } : TRUE

\* T[:3, 3]
Translation(T) == <<T[1][4], T[2][4], T[3][4]>>

\* T[:3, :3]
Rotation(T) ==
    << <<T[1][1], T[1][2], T[1][3]>>,
       <<T[2][1], T[2][2], T[2][3]>>,
       <<T[3][1], T[3][2], T[3][3]>> >>

\* R.T for a 3x3 block
Transpose3(R) ==
    << <<R[1][1], R[2][1], R[3][1]>>,
       <<R[1][2], R[2][2], R[3][2]>>,
       <<R[1][3], R[2][3], R[3][3]>> >>

\* A @ B for two 3x3 rotation blocks
MatMul3(A, B) ==
    CHOOSE M \in { AsTuple([i \in 1..3 |->
                       AsTuple([j \in 1..3 |->
                           Round(a[i][1] * b[1][j] + a[i][2] * b[2][j]
                                 + a[i][3] * b[3][j])])]) :
                   a \in {A}, b \in {B} } : TRUE

\* _rotx(angle)
RotX(angle) ==
    LET c == Cos(angle)
        s == Sin(angle)
    IN << <<Scale, 0, 0, 0>>, <<0, c, -s, 0>>, <<0, s, c, 0>>, <<0, 0, 0, 1>> >>

\* _roty with the sign of the lower-left sine lost.
RotYSignLost(angle) ==
    LET c == Cos(angle)
        s == Sin(angle)
    IN << <<c, 0, s, 0>>, <<0, Scale, 0, 0>>, <<s, 0, c, 0>>, <<0, 0, 0, 1>> >>

\* _roty(angle)
RotY(angle) ==
    LET c == Cos(angle)
        s == Sin(angle)
    IN << <<c, 0, s, 0>>, <<0, Scale, 0, 0>>, <<-s, 0, c, 0>>, <<0, 0, 0, 1>> >>

\* _rotz(angle)
RotZ(angle) ==
    LET c == Cos(angle)
        s == Sin(angle)
    IN << <<c, -s, 0, 0>>, <<s, c, 0, 0>>, <<0, 0, Scale, 0>>, <<0, 0, 0, 1>> >>

\* _create_transform(xyz, rpy): T = eye(4); T[:3,3] = xyz;
\* T[:3,:3] = (Rz @ Ry @ Rx)[:3,:3]
CreateTransform(xyz, rpy) ==
    CHOOSE T \in { << <<R[1][1], R[1][2], R[1][3], xyz[1]>>,
                      <<R[2][1], R[2][2], R[2][3], xyz[2]>>,
                      <<R[3][1], R[3][2], R[3][3], xyz[3]>>,
                      <<0, 0, 0, 1>> >> :
                   R \in {MatMul(MatMul(RotZ(rpy[3]), RotY(rpy[2])), RotX(rpy[1]))} } : TRUE

\* joint_transform(xyz, rpy, q, axis) = T_origin @ T_joint
JointTransform(xyz, rpy, angle, axis) ==
    LET T_origin == CreateTransform(xyz, rpy)
        T_joint == IF axis = "z" THEN RotZ(angle)
                   ELSE IF axis = "y" THEN RotY(angle)
                   ELSE RotX(angle)
    IN MatMul(T_origin, T_joint)

\* ------------------------------------------------------------------------
\* The chain geometry set by UR3_URDF_ForwardKinematics.__init__ (1e-5 m)
\* ------------------------------------------------------------------------

d1 == 15190

a2 == -24365

a3 == -21325

d4 == 11235

d5 == 8535

d6 == 8190

shoulder_offset == 11980

elbow_offset == -9250

upper_arm_length == -a2

forearm_length == -a3

\* The wrist-1 length taken as d4, the two Y offsets not subtracted.
Wrist1LengthUncorrected == d4

wrist_1_length == d4 - elbow_offset - shoulder_offset

wrist_2_length == d5

\* The joint table of forward_kinematics: origin xyz, origin rpy, axis of
\* joints 1..6, in chain order.
JointTable ==
    << [xyz |-> <<0, 0, d1>>, rpy |-> <<0, 0, 0>>, axis |-> "z"],
       [xyz |-> <<0, shoulder_offset, 0>>, rpy |-> <<0, HalfPi, 0>>, axis |-> "y"],
       [xyz |-> <<0, elbow_offset, upper_arm_length>>, rpy |-> <<0, 0, 0>>, axis |-> "y"],
       [xyz |-> <<0, 0, forearm_length>>, rpy |-> <<0, HalfPi, 0>>, axis |-> "y"],
       [xyz |-> <<0, wrist_1_length, 0>>, rpy |-> <<0, 0, 0>>, axis |-> "z"],
       [xyz |-> <<0, 0, wrist_2_length>>, rpy |-> <<0, 0, 0>>, axis |-> "y"] >>

\* The link names of the returned dictionary, in chain order.
LinkNames == <<"base", "shoulder", "upper_arm", "forearm", "wrist_1", "wrist_2", "wrist_3">>

\* T1..T6 of forward_kinematics: the local transform of joint n, which
\* reads joint angle q[n] (q[n-1] in the 0-based source).
JointT(joint_angles, n) ==
    JointTransform(JointTable[n].xyz, JointTable[n].rpy, joint_angles[n], JointTable[n].axis)

\* forward_kinematics(joint_angles): the seven link transforms, base first.
\* T_base = np.eye(4); T_shoulder = T_base @ T1; T_upper_arm =
\* T_shoulder @ T2; ... ; T_wrist_3 = T_wrist_2 @ T6. T_link[n] is the
\* transform of link n + 1 of LinkNames.
forward_kinematics(joint_angles) ==
    LET T_link[n \in 0..6] ==
            IF n = 0 THEN Eye4
            ELSE MatMul(T_link[n - 1], JointT(joint_angles, n))
    IN AsTuple([n \in 1..7 |-> T_link[n - 1]])

\* The two loops shifting by pi instead of 2*pi.
RECURSIVE NormalizeAngleByPi(_)
NormalizeAngleByPi(a) ==
    IF a > Pi THEN NormalizeAngleByPi(a - Pi)
    ELSE IF a < -Pi THEN NormalizeAngleByPi(a + Pi)
    ELSE a

\* The two loops as plain conditionals: one shift at most.
NormalizeAngleOnce(a) ==
    IF a > Pi THEN a - TwoPi
    ELSE IF a < -Pi THEN a + TwoPi
    ELSE a

\* normalize_joint_angles: the two while loops on one angle.
RECURSIVE NormalizeAngle(_)
NormalizeAngle(a) ==
    IF a > Pi THEN NormalizeAngle(a - TwoPi)
    ELSE IF a < -Pi THEN NormalizeAngle(a + TwoPi)
    ELSE a

\* normalize_joint_angles(joint_angles): a new array, each entry normalized.
normalize_joint_angles(joint_angles) ==
    [i \in 1..Len(joint_angles) |-> NormalizeAngle(joint_angles[i])]

\* ------------------------------------------------------------------------
\* The FK instance: its attributes and its methods as the caller sees them
\* ------------------------------------------------------------------------

wrist_3_length == d6

\* The geometry attributes __init__ sets on the instance.
Geometry ==
    [d1 |-> d1, a2 |-> a2, a3 |-> a3, d4 |-> d4, d5 |-> d5, d6 |-> d6,
     shoulder_offset |-> shoulder_offset, elbow_offset |-> elbow_offset,
     upper_arm_length |-> upper_arm_length, forearm_length |-> forearm_length,
     wrist_1_length |-> wrist_1_length, wrist_2_length |-> wrist_2_length,
     wrist_3_length |-> wrist_3_length]

\* self.joint_limits as __init__ sets it: (-2*pi, 2*pi) on all six joints.
DefaultLimits == [i \in 1..6 |-> <<-TwoPi, TwoPi>>]

\* Limits a caller may assign instead (joint_limits is a plain attribute).
NarrowLimits == [i \in 1..6 |-> <<-HalfPi, QuarterPi>>]

LimitConfigs == {DefaultLimits, NarrowLimits}

\* A joint table whose wrist-2 joint turns about Y like its neighbours.
JointTableWrist2AboutY(geom) ==
    << [xyz |-> <<0, 0, geom.d1>>, rpy |-> <<0, 0, 0>>, axis |-> "z"],
       [xyz |-> <<0, geom.shoulder_offset, 0>>, rpy |-> <<0, HalfPi, 0>>, axis |-> "y"],
       [xyz |-> <<0, geom.elbow_offset, geom.upper_arm_length>>, rpy |-> <<0, 0, 0>>,
        axis |-> "y"],
       [xyz |-> <<0, 0, geom.forearm_length>>, rpy |-> <<0, HalfPi, 0>>, axis |-> "y"],
       [xyz |-> <<0, geom.wrist_1_length, 0>>, rpy |-> <<0, 0, 0>>, axis |-> "y"],
       [xyz |-> <<0, 0, geom.wrist_2_length>>, rpy |-> <<0, 0, 0>>, axis |-> "y"] >>

\* The joint table of forward_kinematics, read off the instance attributes
\* geom at the time of the call.
JointTableOf(geom) ==
    << [xyz |-> <<0, 0, geom.d1>>, rpy |-> <<0, 0, 0>>, axis |-> "z"],
       [xyz |-> <<0, geom.shoulder_offset, 0>>, rpy |-> <<0, HalfPi, 0>>, axis |-> "y"],
       [xyz |-> <<0, geom.elbow_offset, geom.upper_arm_length>>, rpy |-> <<0, 0, 0>>,
        axis |-> "y"],
       [xyz |-> <<0, 0, geom.forearm_length>>, rpy |-> <<0, HalfPi, 0>>, axis |-> "y"],
       [xyz |-> <<0, geom.wrist_1_length, 0>>, rpy |-> <<0, 0, 0>>, axis |-> "z"],
       [xyz |-> <<0, 0, geom.wrist_2_length>>, rpy |-> <<0, 0, 0>>, axis |-> "y"] >>

\* forward_kinematics reading joint n's angle from another entry of the
\* argument (entry n + 1, the last joint reading its own).
LocalTransformShifted(geom, joint_angles, n) ==
    JointTransform(JointTableOf(geom)[n].xyz, JointTableOf(geom)[n].rpy,
                   joint_angles[IF n < 6 THEN n + 1 ELSE n], JointTableOf(geom)[n].axis)

\* T1..T6 of forward_kinematics on an instance with attributes geom.
LocalTransform(geom, joint_angles, n) ==
    JointTransform(JointTableOf(geom)[n].xyz, JointTableOf(geom)[n].rpy,
                   joint_angles[n], JointTableOf(geom)[n].axis)

\* The seven transforms forward_kinematics builds on an instance with
\* attributes geom, base first.
ChainTransforms(geom, joint_angles) ==
    LET T_link[n \in 0..6] ==
            IF n = 0 THEN Eye4
            ELSE MatMul(T_link[n - 1], LocalTransform(geom, joint_angles, n))
    IN AsTuple([n \in 1..7 |-> T_link[n - 1]])

\* The returned dictionary: link name -> transform.
LinkPoseDict(chain) ==
    [name \in {LinkNames[n] : n \in 1..7} |->
        chain[CHOOSE n \in 1..7 : LinkNames[n] = name]]

\* A call that ended in an exception of the given type.
Raised(exc) == [raised |-> TRUE, value |-> exc]

\* A call that returned a value.
Returned(v) == [raised |-> FALSE, value |-> v]

\* q = joint_angles: the angles forward_kinematics computes with, on an
\* instance whose joint_limits are `limits` (which it does not read).
AnglesUsed(limits, joint_angles) == joint_angles

\* forward_kinematics(joint_angles) as a call: q[0]..q[5] are read, so a
\* sequence shorter than six raises IndexError; entries past the sixth are
\* never read.
ForwardKinematicsCall(geom, limits, joint_angles) ==
    IF Len(joint_angles) < 6 THEN Raised("IndexError")
    ELSE CHOOSE ret \in { Returned(LinkPoseDict(chain)) :
                             chain \in {ChainTransforms(geom, AnglesUsed(limits, joint_angles))} } :
             TRUE

\* get_end_effector_transform(joint_angles) as a call: transforms['wrist_3']
\* of the dictionary forward_kinematics returned; its exception passes on.
EndEffectorOf(fk_return) ==
    IF fk_return.raised THEN fk_return ELSE Returned(fk_return.value["wrist_3"])

\* get_joint_positions(joint_angles) as a call: the seven [:3, 3] columns in
\* chain order.
JointPositionsOf(fk_return) ==
    IF fk_return.raised THEN fk_return
    ELSE Returned([n \in 1..7 |-> Translation(fk_return.value[LinkNames[n]])])

\* The limit test with the bounds themselves rejected.
OutOfRangeStrict(angle, lo, hi) == angle <= lo \/ angle >= hi

\* if angle < lo or angle > hi
OutOfRange(angle, lo, hi) == angle < lo \/ angle > hi

\* check_joint_limits(joint_angles) on six angles, as a value.
WithinLimits(joint_angles, limits) ==
    \A i \in 1..6 : ~OutOfRange(joint_angles[i], limits[i][1], limits[i][2])

\* forward_kinematics writing the normalized angles back into its argument.
ArgumentNormalized(joint_angles) == normalize_joint_angles(joint_angles)

\* The caller's list after forward_kinematics(joint_angles): q is another
\* name of the same list and no entry is assigned.
ArgumentAfterCall(joint_angles) == joint_angles

\* ------------------------------------------------------------------------
\* UR3_InverseKinematics.__init__: the solver parameters
\* ------------------------------------------------------------------------

\* self.max_iter
max_iter == 200

\* self.tol = 1e-6, in units of 1e-6 (m for positions, rad for angles)
tol == 1

\* _verify's pos_tol = 1e-4 m, in units of 1e-6 m
pos_tol == 100

\* _verify's rot_tol = 5e-3, in units of 1e-6
rot_tol == 5000

\* damping = 0.01 in _solve_single, in units of 0.01
damping == 1

\* The dedup threshold 0.05 rad of solve_ik, in units of 1e-5 rad
dedup_threshold == 5000

\* Python's None (a value no joint vector equals).
None == <<>>

\* ------------------------------------------------------------------------
\* _generate_seeds
\* ------------------------------------------------------------------------

\* configs: the eight standard configurations, in source order
\* (Ready, Home, Elbow up, Rear, Mid, Rear elbow, Flip, Left rear).
configs ==
    << <<0, -HalfPi, HalfPi, -HalfPi, -HalfPi, 0>>,
       <<0, 0, 0, 0, 0, 0>>,
       <<0, -HalfPi, -HalfPi, 0, HalfPi, 0>>,
       <<Pi, -HalfPi, HalfPi, -HalfPi, HalfPi, 0>>,
       <<0, -QuarterPi, QuarterPi, -HalfPi, -HalfPi, 0>>,
       <<Pi, -HalfPi, -HalfPi, HalfPi, HalfPi, 0>>,
       <<0, -Pi, HalfPi, 0, -HalfPi, Pi>>,
       <<-Pi, -HalfPi, HalfPi, HalfPi, -HalfPi, 0>> >>

\* The fixed seed of np.random.RandomState(42).
RngSeed == 42

\* range(24): the number of random seeds.
NumRandomSeeds == 24

\* The generator is a deterministic state machine: a linear congruential
\* one stands for numpy's Mersenne Twister.
RngModulus == 65537

RngMultiplier == 75

RngIncrement == 74

\* np.random.RandomState(seed): the initial generator state.
RandomState(seed) == seed % RngModulus

\* One step of the generator.
RngAdvance(state) == (state * RngMultiplier + RngIncrement) % RngModulus

\* The k-th state after `state`.
RngAfter(state, k) ==
    LET after[i \in 0..k] == IF i = 0 THEN state ELSE RngAdvance(after[i - 1])
    IN after[k]

\* One value of rng.uniform(-pi, pi) read off a generator state: a grid
\* angle in [-pi, pi).
UniformAngle(state) == -Pi + (state % TwoPi)

\* rng.uniform(-np.pi, np.pi, 6) from generator state `state`: six draws.
Uniform6(state) == [j \in 1..6 |-> UniformAngle(RngAfter(state, j))]

\* The generator state after k vectors of six draws were taken from `state`.
RngAfterVectors(state, k) ==
    LET start[i \in 0..k] ==
            IF i = 0 THEN state
            ELSE CHOOSE r \in { RngAfter(s, 6) : s \in {start[i - 1]} } : TRUE
    IN start[k]

\* A generator created once and drawn from by every call.
RngReused(leftover) == leftover

\* rng = np.random.RandomState(42): the generator _generate_seeds draws
\* from is created afresh in every call, whatever state `leftover` the
\* generator of an earlier call was left in.
RngAtCall(leftover) == RandomState(RngSeed)

\* The seeds _generate_seeds returns when it draws from generator state
\* `state`: configs, then NumRandomSeeds vectors of six draws each.
SeedsFrom(state) ==
    configs \o [k \in 1..NumRandomSeeds |-> Uniform6(RngAfterVectors(state, k - 1))]

\* ------------------------------------------------------------------------
\* _solve_single: the damped least-squares update
\* ------------------------------------------------------------------------

\* J @ J.T is positive semi-definite: its smallest eigenvalue is the square
\* of J's smallest singular value, 0 when the numerical Jacobian is rank
\* deficient. The Jacobian itself is not computed on the grid; its smallest
\* squared singular value is any member of this set.
SigmaMinSquared == {0, 1}

\* The smallest eigenvalue of J @ J.T with no damping term added.
MinEigenUndamped(sigma2) == sigma2

\* The smallest eigenvalue of JJT = J @ J.T + damping**2 * np.eye(6).
MinEigenJJT(sigma2) == sigma2 + damping * damping

\* np.linalg.solve(JJT, error) raises LinAlgError iff JJT is singular.
SolveRaises(sigma2) == MinEigenJJT(sigma2) = 0

\* q + dq
AddVec(qv, dq) == [i \in 1..6 |-> qv[i] + dq[i]]

\* A joint vector with joint j turned by d.
Turned(c, j, d) == [c EXCEPT ![j] = c[j] + d]

\* The configurations whose end-effector poses are the reachable targets.
TargetConfigs == {configs[4]}

\* The iterates an update may produce. dq = J.T @ solve(JJT, error) is a
\* real vector that fixed-point arithmetic cannot follow; the update is any
\* displacement that lands in this bounded set: every target configuration,
\* the same arm posture with the base joint two full turns back, with the
\* wrist-3 joint half a turn on (same position, opposite orientation), and
\* with base and wrist-3 joints one full turn away.
IterPool ==
    UNION { { c,
              Turned(c, 1, -2 * TwoPi),
              Turned(c, 6, Pi),
              Turned(Turned(c, 1, TwoPi), 6, -TwoPi) } : c \in TargetConfigs }

\* The displacements dq open to the update at iterate q.
Displacements(qv) == { [i \in 1..6 |-> p[i] - qv[i]] : p \in IterPool }

\* Configurations with joints at half a turn: normalize_joint_angles keeps
\* pi and -pi apart, so each such joint can be written either way. Four
\* such joints, three, and one (the standard configuration Rear).
HalfTurnConfigs ==
    { <<Pi, Pi, -HalfPi, Pi, -HalfPi, Pi>>,
      <<Pi, -HalfPi, HalfPi, Pi, HalfPi, Pi>>,
      configs[4] }

\* Configuration c with each half-turn joint written as pi or as -pi.
HalfTurnVariants(c) ==
    { AsTuple([j \in 1..6 |-> IF Abs(c[j]) = Pi THEN sgn[j] * Pi ELSE c[j]]) :
        sgn \in [1..6 -> {-1, 1}] }

\* The iterates the loop of _solve_single can end at for these targets.
HalfTurnPool == UNION { HalfTurnVariants(c) : c \in HalfTurnConfigs }

\* ------------------------------------------------------------------------
\* get_end_effector_transform
\* ------------------------------------------------------------------------

\* The joint vectors the chain is evaluated at: the seeds, the iterates
\* and the normalized iterates.
VisitedVectors ==
    IterPool
        \cup { SeedsFrom(RandomState(RngSeed))[k] : k \in 1..(8 + NumRandomSeeds) }
        \cup { normalize_joint_angles(p) : p \in IterPool }
        \cup HalfTurnPool

\* forward_kinematics(joint_angles)['wrist_3'] of every visited vector,
\* evaluated once.
WristPoses == { <<p, forward_kinematics(p)[7]>> : p \in VisitedVectors }

\* get_end_effector_transform(joint_angles) = transforms['wrist_3']
get_end_effector_transform(joint_angles) ==
    CHOOSE T \in { IF known = {} THEN forward_kinematics(joint_angles)[7]
                   ELSE (CHOOSE e \in known : TRUE)[2] :
                   known \in {{ e \in WristPoses : e[1] = joint_angles }} } : TRUE

\* ------------------------------------------------------------------------
\* _solve_single: the error of an iterate and the convergence test
\* ------------------------------------------------------------------------

RECURSIVE SumSqTo(_, _)
SumSqTo(v, i) == IF i = 0 THEN 0 ELSE v[i] * v[i] + SumSqTo(v, i - 1)

\* sum(v ** 2)
SumSq(v) == SumSqTo(v, Len(v))

\* np.linalg.norm(v) < bound, v and bound in the same unit. The first
\* conjunct is implied by the second and keeps the squares small.
NormBelow(v, bound) ==
    /\ \A i \in 1..Len(v) : Abs(v[i]) < bound
    /\ SumSq(v) < bound * bound

\* dp = p_desired - p_current, in units of 1e-6 m
PositionError(T_des, T_cur) ==
    << 10 * (T_des[1][4] - T_cur[1][4]),
       10 * (T_des[2][4] - T_cur[2][4]),
       10 * (T_des[3][4] - T_cur[3][4]) >>

\* R_err = R_desired @ R_current.T
RotationError(T_des, T_cur) == MatMul3(Rotation(T_des), Transpose3(Rotation(T_cur)))

\* 2 * np.clip((np.trace(R_err) - 1) / 2, -1, 1), in 1/Scale
ClippedCos2(R_err) ==
    LET t == R_err[1][1] + R_err[2][2] + R_err[3][3] - Scale
    IN IF t > 2 * Scale THEN 2 * Scale
       ELSE IF t < -2 * Scale THEN -2 * Scale
       ELSE t

\* angle < self.epsilon (1e-6): arccos(c) < 1e-6 iff c > 1 - 5e-13, which
\* at the resolution 1/Scale of a rotation entry is c = 1.
AngleBelowEpsilon(R_err) == ClippedCos2(R_err) = 2 * Scale

\* [R_err[2,1] - R_err[1,2], R_err[0,2] - R_err[2,0], R_err[1,0] - R_err[0,1]]
SkewPart(R_err) ==
    << R_err[3][2] - R_err[2][3], R_err[1][3] - R_err[3][1], R_err[2][1] - R_err[1][2] >>

\* sin(angle) is zero in floating point only for angle = 0.0, the arccos
\* of a clipped cosine of exactly 1 (np.sin(np.pi) is 1.2e-16).
SinIsZero(R_err) == ClippedCos2(R_err) = 2 * Scale

\* An extraction without the guard: the division is always executed.
AngleGuardAbsent(R_err) == FALSE

\* if angle < self.epsilon: dw = np.zeros(3), the else branch is skipped.
AngleGuard(R_err) == AngleBelowEpsilon(R_err)

\* The axis-angle extraction of _solve_single: the guard taken gives the
\* zero vector and no division; otherwise angle / (2 * np.sin(angle)) is
\* computed and multiplies the skew part, and a zero sine makes it 0/0.
AxisAngleError(R_err) ==
    IF AngleGuard(R_err)
    THEN [dw_zero |-> TRUE, divided |-> FALSE, is_nan |-> FALSE]
    ELSE [dw_zero |-> FALSE, divided |-> TRUE, is_nan |-> SinIsZero(R_err)]

\* delta = 1e-6 of _numerical_jacobian, in units of 1e-10 rad: the angle
\* between R_plus and R0 when joint i is turned by delta.
jacobian_delta == 10000

\* The threshold 1e-10 of the angular Jacobian column, in the same unit.
jacobian_epsilon == 1

\* The angles the extraction of a Jacobian column can compute: delta, or 0
\* when q + delta rounds to q or the clipped cosine rounds to 1.
JacobianAngles == {0, jacobian_delta}

\* The angular part of one Jacobian column: zero and no division below the
\* threshold, else angle / (2 * np.sin(angle) * delta) times the skew part.
AngularColumn(col_angle) ==
    IF col_angle < jacobian_epsilon
    THEN [column_zero |-> TRUE, divided |-> FALSE, is_nan |-> FALSE]
    ELSE [column_zero |-> FALSE, divided |-> TRUE, is_nan |-> col_angle = 0]

\* The Jacobian evaluated at the top of the loop body, before the test.
JacobianFirst(evaluations) == evaluations + 1

\* The Jacobian evaluations made when the convergence branch returns: the
\* test comes first in the loop body, J is computed after it.
JacobiansAtReturn(evaluations) == evaluations

\* The truth values `rot_err < bound` can take, rot_err = norm(dw), bound in
\* 1e-6 rad.
\*   angle < epsilon: dw = zeros(3), rot_err = 0.
\*   otherwise dw = angle / (2 sin(angle)) * skew. For 0 < angle < pi the
\*   factor is at least 1/2, so rot_err >= norm(skew) / 2: a non-zero skew
\*   part (at least 1/Scale in one entry) decides the test.
\*   A zero skew part at a half turn (trace -1): sin(angle) is about 1e-16,
\*   the computed skew part is rounding noise of the same size, and dw is
\*   either tiny or of size pi; both results are possible.
\*   A zero skew part at any other angle (R_err is no rotation): dw is the
\*   zero vector times a finite factor, rot_err = 0.
RotErrBelow(R_err, bound) ==
    IF AngleBelowEpsilon(R_err) THEN {0 < bound}
    ELSE IF SkewPart(R_err) = <<0, 0, 0>>
    THEN IF ClippedCos2(R_err) = -2 * Scale THEN {TRUE, FALSE} ELSE {0 < bound}
    ELSE { NormBelow(<<(1000000 \div (2 * Scale)) * w[1],
                       (1000000 \div (2 * Scale)) * w[2],
                       (1000000 \div (2 * Scale)) * w[3]>>, bound) : w \in {SkewPart(R_err)} }

\* pos_err < self.tol
PosErrBelowTol(T_des, T_cur) ==
    \E dp \in {PositionError(T_des, T_cur)} : NormBelow(dp, tol)

\* The truth values of the convergence test
\*   pos_err < self.tol and rot_err < self.tol * 5
\* for current pose T_cur.
ConvergenceTest(T_des, T_cur) ==
    IF PosErrBelowTol(T_des, T_cur)
    THEN UNION { RotErrBelow(R_err, tol * 5) : R_err \in {RotationError(T_des, T_cur)} }
    ELSE {FALSE}

\* T_actual[:3, :3] - T_desired[:3, :3], flattened, in units of 1e-6
RotationDifference(T_actual, T_des) ==
    [k \in 1..9 |-> (1000000 \div Scale)
                     * (T_actual[((k - 1) \div 3) + 1][((k - 1) % 3) + 1]
                        - T_des[((k - 1) \div 3) + 1][((k - 1) % 3) + 1])]

\* _verify(q, T_desired): a fresh FK evaluation against both tolerances.
_verify(qv, T_des) ==
    \E T_actual \in {get_end_effector_transform(qv)} :
        /\ \E dp \in {PositionError(T_actual, T_des)} : NormBelow(dp, pos_tol)
        /\ \E dR \in {RotationDifference(T_actual, T_des)} : NormBelow(dR, rot_tol)

\* The convergence branch without the _verify check.
ConvergedReturnUnverified(qv, verify_ok) == qv

\* What the convergence branch returns, given _verify's answer: q if it
\* accepts, else None.
ConvergedReturn(qv, verify_ok) == IF verify_ok THEN qv ELSE None

\* ------------------------------------------------------------------------
\* solve_ik: deduplication
\* ------------------------------------------------------------------------

\* np.all(np.abs(a - normalize_joint_angles(b)) < 0.05)
AllClose(a, b) ==
    LET nb == normalize_joint_angles(b)
    IN \A j \in 1..6 : Abs(a[j] - nb[j]) * EighthTurnRad5 < dedup_threshold

\* is_new from a comparison with the last kept solution only.
IsNewAgainstLast(res, sols) == sols = <<>> \/ ~AllClose(res, sols[Len(sols)])

\* is_new after the loop over the existing solutions.
IsNew(res, sols) == \A k \in 1..Len(sols) : ~AllClose(res, sols[k])

\* The result appended as _solve_single returned it, not normalized.
AcceptedUnnormalized(res, sols) ==
    IF IsNew(normalize_joint_angles(res), sols) THEN Append(sols, res) ELSE sols

\* A new solution put in front of the kept ones.
AcceptedInFront(res, sols) ==
    LET normalized == normalize_joint_angles(res)
    IN IF IsNew(normalized, sols) THEN <<normalized>> \o sols ELSE sols

\* The solutions list after a non-None result of _solve_single.
Accepted(res, sols) ==
    LET normalized == normalize_joint_angles(res)
    IN IF IsNew(normalized, sols) THEN Append(sols, normalized) ELSE sols

\* The solutions list after solve_ik has dealt with one result.
AfterResult(res, sols) == IF res = None THEN sols ELSE Accepted(res, sols)

\* solve_ik filtering its results by check_joint_limits.
ResultKeptWithinLimits(limits, res, sols) ==
    IF res # None /\ ~WithinLimits(normalize_joint_angles(res), limits) THEN sols
    ELSE AfterResult(res, sols)

\* The solutions list after solve_ik has dealt with one result, on a solver
\* whose FK chain has joint_limits `limits`: solve_ik calls
\* _solve_single and normalize_joint_angles only, check_joint_limits and
\* joint_limits are not read.
ResultKept(limits, res, sols) == AfterResult(res, sols)

\* ------------------------------------------------------------------------
\* _solve_single as a relation between its arguments and its return value
\* ------------------------------------------------------------------------

\* What the loop returns in an iteration whose iterate is p, if that
\* iteration can meet the convergence test.
ConvergedOutcome(T_des, p) ==
    IF \E T_current \in {get_end_effector_transform(p)} :
           TRUE \in ConvergenceTest(T_des, T_current)
    THEN { ConvergedReturn(p, ok) : ok \in {_verify(p, T_des)} }
    ELSE {}

\* The iteration whose iterate is p can fail the convergence test.
CanContinue(T_des, p) ==
    \E T_current \in {get_end_effector_transform(p)} :
        FALSE \in ConvergenceTest(T_des, T_current)

\* What the loop can return after its first update: the outcome of any
\* iterate, or None at the cap if some iterate keeps failing the test.
LaterOutcomes(T_des) ==
    UNION { ConvergedOutcome(T_des, p) : p \in IterPool }
        \cup (IF \E p \in IterPool : CanContinue(T_des, p) THEN {None} ELSE {})

\* The values _solve_single(T_desired, q_init) can return.
SingleOutcomes(T_des, q_init) ==
    ConvergedOutcome(T_des, q_init)
        \cup (IF CanContinue(T_des, q_init) THEN LaterOutcomes(T_des) ELSE {})

\* The members of HalfTurnPool at which an iteration meets the convergence
\* test for target T_des.
SolutionsOf(T_des) == { p \in HalfTurnPool : ConvergedOutcome(T_des, p) # {} }

\* The value _solve_single(T_desired, q_init) returns for such a target.
\* As for IterPool, the real update is not followed: the loop ends at the
\* solution on the side of q_init at every half-turn joint, which the
\* update q = q + dq reaches without carrying a joint across zero, and at
\* the cap if the target has no solution.
OutcomesNear(T_des, q_init) ==
    LET near == { p \in SolutionsOf(T_des) :
                    \A j \in 1..6 : Abs(p[j]) = Pi => ((p[j] > 0) <=> (q_init[j] >= 0)) }
    IN IF near = {} THEN {None}
       ELSE UNION { ConvergedOutcome(T_des, p) : p \in near }

\* ------------------------------------------------------------------------
\* Target poses
\* ------------------------------------------------------------------------

\* A pose 2 m from the base: beyond the reach of the arm (under 0.6 m).
UnreachablePose ==
    << <<Scale, 0, 0, 200000>>, <<0, Scale, 0, 0>>, <<0, 0, Scale, 0>>, <<0, 0, 0, 1>> >>

\* A pose whose rotation block is degenerate (all zeros: no rotation at
\* all), at the position of pose T.
Degenerate(T) ==
    << <<0, 0, 0, T[1][4]>>, <<0, 0, 0, T[2][4]>>, <<0, 0, 0, T[3][4]>>, <<0, 0, 0, 1>> >>

ReachablePoses == { get_end_effector_transform(c) : c \in TargetConfigs }

DegeneratePoses == { Degenerate(T) : T \in ReachablePoses }

\* The arguments solve_ik is called with.
Targets == ReachablePoses \cup DegeneratePoses \cup {UnreachablePose}

\* ------------------------------------------------------------------------
\* The viewer: sliders, joint angles and the solution buttons
\* ------------------------------------------------------------------------

\* One slider step (value / 10.0 degrees), in units of 1e-5 degree: the unit
\* of the viewer's angles here.
SliderUnit == 10000

\* An eighth turn (np.pi / 4), in the same unit.
EighthTurnDeg5 == 4500000

\* slider.setMinimum(-3600), slider.setMaximum(3600)
slider_min == -3600

slider_max == 3600

\* The value slider.setValue(int(np.degrees(angle) * 10)) leaves on a slider:
\* int() truncates towards zero, setValue keeps the value within the range.
SliderValueOf(angle) ==
    LET steps == IF angle >= 0 THEN angle \div SliderUnit
                 ELSE -((-angle) \div SliderUnit)
    IN IF steps < slider_min THEN slider_min
       ELSE IF steps > slider_max THEN slider_max
       ELSE steps

\* on_slider_changed: angle_rad = np.radians(value / 10.0)
AngleOfSlider(value) == value * SliderUnit

\* sliders[i].setValue(values[i]) for every i, on sliders old_values with
\* joint angles old_angles: a slider whose value changes emits valueChanged
\* and on_slider_changed stores its angle; one whose value stays emits
\* nothing.
SetValues(old_values, old_angles, values) ==
    [sliders |-> values,
     angles |-> [i \in 1..6 |-> IF values[i] = old_values[i] THEN old_angles[i]
                                ELSE AngleOfSlider(values[i])]]

\* The presets of the Home and Ready buttons, in degrees.
Presets == { <<0, 0, 0, 0, 0, 0>>, <<0, -90, 90, -90, -90, 0>> }

\* The slider and the value a user drags it to.
UserMoves == { <<1, slider_min>>, <<5, 1234>> }

\* How far (in 1e-5 degree) a solution solve_ik returns may lie from the
\* configuration it stands for: searches stop within tol = 1e-6 of it.
Residuals == {-3, 0}

\* A solution solve_ik returns for the pose of the Ready position besides
\* Ready itself, in 1e-5 degree.
OtherSolution == <<-3, -3761976, 1118891, 11643087, 9000000, 17999997>>

\* The most entries of a list solve_ik returns to the viewer.
MaxSolutions == 2

\* How often the user presses Calculate IK.
MaxSolves == 2

\* What self.ik.solve_ik(T_current) can do for the viewer, T_current the
\* pose of joint angles `angles`: raise, or return a list of solutions, the
\* configuration itself up to a residual among them.
SolveIkReturns(angles) ==
    LET found == { [i \in 1..6 |-> angles[i] + r] : r \in Residuals } \cup {OtherSolution}
    IN {Raised("Exception")}
         \cup { Returned(list) :
                  list \in { l \in UNION { [1..n -> found] : n \in 0..MaxSolutions } :
                               \A i \in 1..Len(l) : \A k \in 1..Len(l) :
                                   i # k => l[i] # l[k] } }

\* The button group with the new buttons added to the old ones.
ButtonsAdded(old_ids, sols) == old_ids \cup { k - 1 : k \in 1..Len(sols) }

\* The ids in self.solution_buttons after calculate_ik_solutions has
\* removed every old button and added one per solution, with id i.
ButtonsRebuilt(old_ids, sols) == { k - 1 : k \in 1..Len(sols) }

\* ------------------------------------------------------------------------
\* State
\* ------------------------------------------------------------------------

VARIABLES
    pc,            \* where the caller is: "idle", "for_seed", "iter", "got", "done",
                   \* "raised"
    T_desired,     \* the argument of solve_ik
    rng,           \* the generator state _generate_seeds left behind
    seeds,         \* seeds = self._generate_seeds()
    seed_idx,      \* how many seeds the for loop has taken
    q,             \* the iterate of _solve_single
    iteration,     \* the loop variable of _solve_single
    result,        \* what _solve_single returned
    solutions,     \* the solutions list of solve_ik
    conv_met,      \* the returning iteration met the convergence test
    verified,      \* _verify's answer in the returning iteration
    single_calls,  \* calls of _solve_single made by this solve_ik
    any_found,     \* some _solve_single of this solve_ik returned a q
    calls,         \* solve_ik calls this solver instance has completed
    rng2,          \* a second solver instance: its generator state,
    seeds2,        \*   its seeds,
    solutions2,    \*   its solutions list,
    calls2,        \*   the solve_ik calls it has completed
    angles_in,     \* the argument of normalize_joint_angles
    angles_out,    \* what normalize_joint_angles returned
    jacobians,     \* Jacobian evaluations of the running _solve_single
    nan_seen,      \* an axis-angle extraction of this solver divided zero by zero
    geometry,      \* the geometry attributes of the FK instance (self.d1, ...)
    joint_limits,  \* self.joint_limits of the FK instance
    joint_limits2, \* self.joint_limits of the second instance's FK chain
    fk_arg,        \* the joint_angles list the caller passed last
    fk_op,         \* the FK method called last
    fk_out,        \* what that call returned or raised
    fk_out2,       \* what the same call returned on the second instance
    limit_idx,     \* the loop index i of check_joint_limits
    fk_first,      \* the first forward_kinematics call completed: limits,
                   \* argument and returned poses
    heap,          \* the arrays and lists alive: object id -> contents
    refs,          \* the names that refer to them: name -> object id(s)
    view_angles,   \* self.joint_angles of the viewer
    sliders,       \* the values of the six sliders (tenths of a degree)
    ik_solutions,  \* self.ik_solutions of the viewer
    radio_ids,     \* the ids of the buttons in self.solution_buttons
    view_op,       \* the viewer handler that ran last, with its button id
    solve_count    \* how often the user has pressed Calculate IK

solver_vars == <<T_desired, rng, seeds, seed_idx, q, iteration, result, solutions,
                 conv_met, verified, single_calls, any_found, calls, jacobians, nan_seen>>

twin_vars == <<rng2, seeds2, solutions2, calls2>>

norm_vars == <<angles_in, angles_out>>

fk_vars == <<geometry, joint_limits, joint_limits2, fk_arg, fk_op, fk_out, fk_out2,
             limit_idx, fk_first>>

heap_vars == <<heap, refs>>

viewer_vars == <<view_angles, sliders, ik_solutions, radio_ids, view_op, solve_count>>

vars == <<pc, solver_vars, twin_vars, norm_vars, fk_vars, heap_vars, viewer_vars>>

\* A solver instance after construction: no call made yet.
SolverIdle ==
    /\ T_desired = Eye4
    /\ rng = RandomState(0)
    /\ seeds = <<>>
    /\ seed_idx = 0
    /\ q = None
    /\ iteration = 0
    /\ result = None
    /\ solutions = <<>>
    /\ conv_met = FALSE
    /\ verified = FALSE
    /\ single_calls = 0
    /\ any_found = FALSE
    /\ calls = 0
    /\ jacobians = 0
    /\ nan_seen = FALSE

\* The second instance after construction.
TwinIdle ==
    /\ rng2 = RandomState(0)
    /\ seeds2 = <<>>
    /\ solutions2 = <<>>
    /\ calls2 = 0

\* No call of normalize_joint_angles under way.
NormIdle ==
    /\ angles_in = <<>>
    /\ angles_out = <<>>

\* The FK instances after construction: the URDF geometry, the default
\* limits, no method called yet.
FkIdle ==
    /\ geometry = Geometry
    /\ joint_limits = DefaultLimits
    /\ joint_limits2 = DefaultLimits
    /\ fk_arg = <<>>
    /\ fk_op = "none"
    /\ fk_out = None
    /\ fk_out2 = None
    /\ limit_idx = 0
    /\ fk_first = None

\* No object allocated yet.
HeapIdle ==
    /\ heap = <<>>
    /\ refs = <<>>

\* The viewer after __init__ and create_control_panel: the Ready position,
\* every slider at int(np.degrees(joint_angles[i]) * 10), no solutions, an
\* empty button group.
ViewerIdle ==
    /\ view_angles = [i \in 1..6 |-> configs[1][i] * EighthTurnDeg5]
    /\ sliders = [i \in 1..6 |-> SliderValueOf(configs[1][i] * EighthTurnDeg5)]
    /\ ik_solutions = <<>>
    /\ radio_ids = {}
    /\ view_op = [name |-> "none", idx |-> -1, pose_of |-> <<>>]
    /\ solve_count = 0

Init ==
    /\ pc = "idle"
    /\ SolverIdle
    /\ TwinIdle
    /\ NormIdle
    /\ FkIdle
    /\ HeapIdle
    /\ ViewerIdle

\* The locals of a finished _solve_single call and its returned value go
\* out of scope once solve_ik has dealt with the result.
SingleLocalsDropped ==
    /\ q' = None
    /\ iteration' = 0
    /\ result' = None
    /\ conv_met' = FALSE
    /\ verified' = FALSE
    /\ jacobians' = 0

\* A loop that also runs for index max_iter.
LoopRunsInclusive(i) == i <= max_iter

\* for iteration in range(self.max_iter): the loop body runs for index i.
LoopRuns(i) == i < max_iter

\* A None result ending the seed loop.
AfterNoneStops == "done"

\* Where solve_ik goes after a None result: `if result is not None` has no
\* else branch, the for loop takes the next seed.
AfterNoneResult == "for_seed"

\* solve_ik(T): solutions = []; seeds = self._generate_seeds()
SolveIk ==
    /\ pc = "idle"
    /\ \E T \in Targets : T_desired' = T
    /\ solutions' = <<>>
    /\ seeds' = SeedsFrom(RngAtCall(rng))
    /\ rng' = RngAfterVectors(RngAtCall(rng), NumRandomSeeds)
    /\ seed_idx' = 0
    /\ single_calls' = 0
    /\ any_found' = FALSE
    /\ pc' = "for_seed"
    /\ UNCHANGED <<q, iteration, result, conv_met, verified, calls, jacobians, nan_seen,
                   twin_vars, norm_vars, fk_vars,
                   heap_vars, viewer_vars>>

\* for seed in seeds: result = self._solve_single(T_desired, seed), up to
\* the loop of _solve_single: q = np.array(q_init)
StartSingle ==
    /\ pc = "for_seed"
    /\ seed_idx < Len(seeds)
    /\ seed_idx' = seed_idx + 1
    /\ q' = seeds[seed_idx + 1]
    /\ iteration' = 0
    /\ single_calls' = single_calls + 1
    /\ jacobians' = 0
    /\ pc' = "iter"
    /\ UNCHANGED <<T_desired, rng, seeds, result, solutions, conv_met, verified,
                   any_found, calls, nan_seen, twin_vars, norm_vars, fk_vars,
                   heap_vars, viewer_vars>>

\* One loop iteration that meets the convergence test: return q or None.
IterConverged ==
    /\ pc = "iter"
    /\ LoopRuns(iteration)
    /\ \E T_current \in {get_end_effector_transform(q)} :
          TRUE \in ConvergenceTest(T_desired, T_current)
    /\ \E ok \in {_verify(q, T_desired)} :
          /\ result' = ConvergedReturn(q, ok)
          /\ verified' = ok
    /\ conv_met' = TRUE
    /\ jacobians' = JacobiansAtReturn(jacobians)
    /\ \E R_err \in {RotationError(T_desired, get_end_effector_transform(q))} :
          nan_seen' = (nan_seen \/ AxisAngleError(R_err).is_nan)
    /\ pc' = "got"
    /\ UNCHANGED <<T_desired, rng, seeds, seed_idx, q, iteration, solutions,
                   single_calls, any_found, calls, twin_vars, norm_vars, fk_vars,
                   heap_vars, viewer_vars>>

\* One loop iteration that does not: Jacobian, damped solve, q = q + dq.
\* An exception of np.linalg.solve is caught nowhere: it ends solve_ik.
IterUpdate ==
    /\ pc = "iter"
    /\ LoopRuns(iteration)
    /\ \E T_current \in {get_end_effector_transform(q)} :
          FALSE \in ConvergenceTest(T_desired, T_current)
    /\ \E sigma2 \in SigmaMinSquared :
          IF SolveRaises(sigma2)
          THEN /\ pc' = "raised"
               /\ UNCHANGED <<q, iteration,
                   heap_vars, viewer_vars>>
          ELSE /\ \E dq \in Displacements(q) : q' = AddVec(q, dq)
               /\ iteration' = iteration + 1
               /\ pc' = "iter"
    /\ jacobians' = jacobians + 1
    /\ \E R_err \in {RotationError(T_desired, get_end_effector_transform(q))},
          col_angle \in JacobianAngles :
          nan_seen' = (nan_seen \/ AxisAngleError(R_err).is_nan
                                \/ AngularColumn(col_angle).is_nan)
    /\ UNCHANGED <<T_desired, rng, seeds, seed_idx, result, solutions, conv_met,
                   verified, single_calls, any_found, calls, twin_vars, norm_vars, fk_vars,
                   heap_vars, viewer_vars>>

\* The loop ran out: return None.
IterExhausted ==
    /\ pc = "iter"
    /\ ~LoopRuns(iteration)
    /\ result' = None
    /\ conv_met' = FALSE
    /\ verified' = FALSE
    /\ pc' = "got"
    /\ UNCHANGED <<T_desired, rng, seeds, seed_idx, q, iteration, solutions,
                   single_calls, any_found, calls, jacobians, nan_seen, twin_vars,
                   norm_vars, fk_vars,
                   heap_vars, viewer_vars>>

\* if result is not None: normalize, compare with the kept ones, append.
KeepResult ==
    /\ pc = "got"
    /\ result # None
    /\ solutions' = Accepted(result, solutions)
    /\ any_found' = TRUE
    /\ SingleLocalsDropped
    /\ pc' = "for_seed"
    /\ UNCHANGED <<T_desired, rng, seeds, seed_idx, single_calls, calls, nan_seen,
                   twin_vars, norm_vars, fk_vars,
                   heap_vars, viewer_vars>>

\* result is None: nothing is added, the loop goes on.
SkipResult ==
    /\ pc = "got"
    /\ result = None
    /\ SingleLocalsDropped
    /\ pc' = AfterNoneResult
    /\ UNCHANGED <<T_desired, rng, seeds, seed_idx, solutions, single_calls, any_found,
                   calls, nan_seen, twin_vars, norm_vars, fk_vars,
                   heap_vars, viewer_vars>>

\* return solutions
ReturnSolutions ==
    /\ pc = "for_seed"
    /\ seed_idx >= Len(seeds)
    /\ pc' = "done"
    /\ calls' = calls + 1
    /\ UNCHANGED <<T_desired, rng, seeds, seed_idx, q, iteration, result, solutions,
                   conv_met, verified, single_calls, any_found, jacobians, nan_seen,
                   twin_vars, norm_vars, fk_vars,
                   heap_vars, viewer_vars>>

Next ==
    \/ SolveIk
    \/ StartSingle
    \/ IterConverged
    \/ IterUpdate
    \/ IterExhausted
    \/ KeepResult
    \/ SkipResult
    \/ ReturnSolutions

Spec == Init /\ [][Next]_vars

\* ------------------------------------------------------------------------
\* Two solver instances given the same target
\* ------------------------------------------------------------------------

\* How many solve_ik calls an instance may have completed before the two
\* instances are given the same target.
MaxEarlierCalls == 2

\* The first instance completes a solve_ik call of its own: what stays
\* behind is the generator state of its _generate_seeds.
EarlierCall ==
    /\ pc = "idle"
    /\ calls < MaxEarlierCalls
    /\ rng' = RngAfterVectors(RngAtCall(rng), NumRandomSeeds)
    /\ calls' = calls + 1
    /\ UNCHANGED <<pc, T_desired, seeds, seed_idx, q, iteration, result, solutions,
                   conv_met, verified, single_calls, any_found, jacobians, nan_seen,
                   twin_vars, norm_vars, fk_vars,
                   heap_vars, viewer_vars>>

\* The second instance completes a solve_ik call of its own.
EarlierCall2 ==
    /\ pc = "idle"
    /\ calls2 < MaxEarlierCalls
    /\ rng2' = RngAfterVectors(RngAtCall(rng2), NumRandomSeeds)
    /\ calls2' = calls2 + 1
    /\ UNCHANGED <<pc, solver_vars, seeds2, solutions2, norm_vars, fk_vars,
                   heap_vars, viewer_vars>>

\* Both instances: solve_ik(T) with the same T, up to the seed loop.
TwinSolveIk ==
    /\ pc = "idle"
    /\ \E T \in Targets : T_desired' = T
    /\ solutions' = <<>>
    /\ solutions2' = <<>>
    /\ seeds' = SeedsFrom(RngAtCall(rng))
    /\ seeds2' = SeedsFrom(RngAtCall(rng2))
    /\ rng' = RngAfterVectors(RngAtCall(rng), NumRandomSeeds)
    /\ rng2' = RngAfterVectors(RngAtCall(rng2), NumRandomSeeds)
    /\ seed_idx' = 0
    /\ pc' = "twin_for_seed"
    /\ UNCHANGED <<q, iteration, result, conv_met, verified, single_calls, any_found,
                   calls, calls2, jacobians, nan_seen, norm_vars, fk_vars,
                   heap_vars, viewer_vars>>

\* Both instances: one round of the seed loop. _solve_single computes its
\* return value from its arguments alone, in floating-point arithmetic that
\* is the same in both instances: equal arguments give equal results.
TwinSingle ==
    /\ pc = "twin_for_seed"
    /\ seed_idx < Len(seeds)
    /\ \E r \in SingleOutcomes(T_desired, seeds[seed_idx + 1]),
          r2 \in SingleOutcomes(T_desired, seeds2[seed_idx + 1]) :
          /\ seeds[seed_idx + 1] = seeds2[seed_idx + 1] => r = r2
          /\ solutions' = ResultKept(joint_limits, r, solutions)
          /\ solutions2' = ResultKept(joint_limits2, r2, solutions2)
    /\ seed_idx' = seed_idx + 1
    /\ UNCHANGED <<pc, T_desired, rng, seeds, q, iteration, result, conv_met, verified,
                   single_calls, any_found, calls, jacobians, nan_seen, rng2, seeds2,
                   calls2, norm_vars, fk_vars,
                   heap_vars, viewer_vars>>

\* Both instances: return solutions
TwinReturn ==
    /\ pc = "twin_for_seed"
    /\ seed_idx >= Len(seeds)
    /\ pc' = "twin_done"
    /\ UNCHANGED <<solver_vars, twin_vars, norm_vars, fk_vars,
                   heap_vars, viewer_vars>>

\* The caller assigns joint_limits on the FK chains of the two instances.
TwinConfigure ==
    /\ pc = "idle"
    /\ \E l1 \in LimitConfigs, l2 \in LimitConfigs :
          /\ <<l1, l2>> # <<joint_limits, joint_limits2>>
          /\ joint_limits' = l1
          /\ joint_limits2' = l2
    /\ UNCHANGED <<pc, solver_vars, twin_vars, norm_vars, geometry, fk_arg, fk_op, fk_out,
                   fk_out2, limit_idx, fk_first,
                   heap_vars, viewer_vars>>

\* The joint vectors both chains are evaluated at.
TwinFkInputs == {configs[4], <<9, -3, 0, 1, 0, -9>>}

\* Both instances: fk.forward_kinematics(joint_angles) with the same
\* joint angles.
TwinForwardKinematics ==
    /\ pc = "idle"
    /\ \E joint_angles \in TwinFkInputs :
          /\ fk_arg' = joint_angles
          /\ fk_out' = ForwardKinematicsCall(geometry, joint_limits, joint_angles)
          /\ fk_out2' = ForwardKinematicsCall(geometry, joint_limits2, joint_angles)
    /\ fk_op' = "forward_kinematics"
    /\ UNCHANGED <<pc, solver_vars, twin_vars, norm_vars, geometry, joint_limits,
                   joint_limits2, limit_idx, fk_first,
                   heap_vars, viewer_vars>>

NextTwin ==
    \/ EarlierCall
    \/ EarlierCall2
    \/ TwinConfigure
    \/ TwinForwardKinematics
    \/ TwinSolveIk
    \/ TwinSingle
    \/ TwinReturn

SpecTwin == Init /\ [][NextTwin]_vars

\* ------------------------------------------------------------------------
\* solve_ik on a target with joints at half a turn
\* ------------------------------------------------------------------------

\* solve_ik(T) for the pose of a half-turn configuration or a pose out of
\* reach, up to the seed loop.
HalfTurnSolveIk ==
    /\ pc = "idle"
    /\ \E T \in { get_end_effector_transform(c) : c \in HalfTurnConfigs }
                    \cup {UnreachablePose} : T_desired' = T
    /\ solutions' = <<>>
    /\ seeds' = SeedsFrom(RngAtCall(rng))
    /\ rng' = RngAfterVectors(RngAtCall(rng), NumRandomSeeds)
    /\ seed_idx' = 0
    /\ single_calls' = 0
    /\ any_found' = FALSE
    /\ pc' = "half_turn_for_seed"
    /\ UNCHANGED <<q, iteration, result, conv_met, verified, calls, jacobians, nan_seen,
                   twin_vars, norm_vars, fk_vars,
                   heap_vars, viewer_vars>>

\* One round of the seed loop: result = self._solve_single(T_desired,
\* seed), then normalize, compare with the kept solutions, append.
HalfTurnSingle ==
    /\ pc = "half_turn_for_seed"
    /\ seed_idx < Len(seeds)
    /\ \E r \in OutcomesNear(T_desired, seeds[seed_idx + 1]) :
          /\ solutions' = ResultKept(joint_limits, r, solutions)
          /\ any_found' = (any_found \/ r # None)
    /\ seed_idx' = seed_idx + 1
    /\ single_calls' = single_calls + 1
    /\ UNCHANGED <<pc, T_desired, rng, seeds, q, iteration, result, conv_met, verified,
                   calls, jacobians, nan_seen, twin_vars, norm_vars, fk_vars,
                   heap_vars, viewer_vars>>

\* return solutions
HalfTurnReturn ==
    /\ pc = "half_turn_for_seed"
    /\ seed_idx >= Len(seeds)
    /\ pc' = "half_turn_done"
    /\ calls' = calls + 1
    /\ UNCHANGED <<T_desired, rng, seeds, seed_idx, q, iteration, result, solutions,
                   conv_met, verified, single_calls, any_found, jacobians, nan_seen,
                   twin_vars, norm_vars, fk_vars,
                   heap_vars, viewer_vars>>

NextHalfTurn ==
    \/ HalfTurnSolveIk
    \/ HalfTurnSingle
    \/ HalfTurnReturn

SpecHalfTurn == Init /\ [][NextHalfTurn]_vars

\* ------------------------------------------------------------------------
\* normalize_joint_angles on its own
\* ------------------------------------------------------------------------

\* The length of the joint vectors normalize_joint_angles is applied to.
NormLen == 2

\* The largest magnitude (in eighth turns) of an angle it is applied to.
NormMaxAngle == 16

NormInputs == [1..NormLen -> (-NormMaxAngle)..NormMaxAngle]

InitNorm ==
    /\ pc = "norm_call"
    /\ SolverIdle
    /\ TwinIdle
    /\ angles_in \in NormInputs
    /\ angles_out = <<>>
    /\ FkIdle
    /\ HeapIdle
    /\ ViewerIdle

\* The while loops run on the caller's own sequence.
NormalizedInPlace(joint_angles) == normalize_joint_angles(joint_angles)

\* The caller's sequence after normalize_joint_angles(joint_angles):
\* normalized = np.array(joint_angles, dtype=float) is a copy, the loops
\* write to the copy only.
CallerSequenceAfter(joint_angles) == joint_angles

\* normalized = self.normalize_joint_angles(joint_angles)
Normalize ==
    /\ pc = "norm_call"
    /\ angles_out' = normalize_joint_angles(angles_in)
    /\ angles_in' = CallerSequenceAfter(angles_in)
    /\ pc' = "norm_done"
    /\ UNCHANGED <<solver_vars, twin_vars, fk_vars,
                   heap_vars, viewer_vars>>

NextNorm == Normalize

SpecNorm == InitNorm /\ [][NextNorm]_vars

\* ------------------------------------------------------------------------
\* The methods of one FK instance, called in any order
\* ------------------------------------------------------------------------

\* The angles a caller puts into a list (eighth turns): both bounds of the
\* default and of the narrow limits, and values on either side of them.
FkAngles == {-9, -8, -3, -2, 1, 2, 8, 9}

\* The most entries a caller's list has.
MaxListLen == 7

\* The lists a caller passes: the home position, a seed of the solver, and
\* the home position with the first or the sixth entry replaced, each cut
\* to zero, five, six and more entries.
FkLists ==
    { SubSeq(long, 1, n) :
        n \in {0} \cup (5..MaxListLen),
        long \in {[i \in 1..MaxListLen |-> 0]}
                 \cup {configs[1] \o [i \in 1..(MaxListLen - 6) |-> 0]}
                 \cup { [i \in 1..MaxListLen |-> IF i = j THEN a ELSE 0] :
                          j \in {1, 6}, a \in FkAngles } }

\* The lists of the calls made in between.
OtherLists == {configs[4], <<1, 2, 3, -1, -2, -3>>}

\* A fresh instance and the list the caller passes to its methods.
InitFk ==
    /\ pc = "fk_idle"
    /\ SolverIdle
    /\ TwinIdle
    /\ NormIdle
    /\ geometry = Geometry
    /\ joint_limits = DefaultLimits
    /\ joint_limits2 = DefaultLimits
    /\ fk_arg \in FkLists
    /\ fk_op = "none"
    /\ fk_out = None
    /\ fk_out2 = None
    /\ limit_idx = 0
    /\ fk_first = None
    /\ HeapIdle
    /\ ViewerIdle

\* A call of forward_kinematics on another list, by the caller or by a
\* solver holding this instance.
CallOnOtherList ==
    /\ pc = "fk_idle"
    /\ \E joint_angles \in OtherLists :
          fk_out' = ForwardKinematicsCall(geometry, joint_limits, joint_angles)
    /\ fk_op' = "other_forward_kinematics"
    /\ UNCHANGED <<pc, solver_vars, twin_vars, norm_vars, geometry, joint_limits,
                   joint_limits2, fk_arg, fk_out2, limit_idx, fk_first,
                   heap_vars, viewer_vars>>

\* The caller assigns fk.joint_limits.
ConfigureLimits ==
    /\ pc = "fk_idle"
    /\ \E l1 \in LimitConfigs \ {joint_limits} : joint_limits' = l1
    /\ fk_op' = "none"
    /\ fk_out' = None
    /\ UNCHANGED <<pc, solver_vars, twin_vars, norm_vars, geometry, joint_limits2, fk_arg,
                   fk_out2, limit_idx, fk_first,
                   heap_vars, viewer_vars>>

\* transforms = fk.forward_kinematics(joint_angles)
CallForwardKinematics ==
    /\ pc = "fk_idle"
    /\ \E ret \in {ForwardKinematicsCall(geometry, joint_limits, fk_arg)} :
          /\ fk_out' = ret
          /\ fk_first' = IF fk_first = None /\ ~ret.raised
                         THEN [limits |-> joint_limits, arg |-> fk_arg, poses |-> ret.value]
                         ELSE fk_first
    /\ fk_op' = "forward_kinematics"
    /\ fk_arg' = ArgumentAfterCall(fk_arg)
    /\ UNCHANGED <<pc, solver_vars, twin_vars, norm_vars, geometry, joint_limits,
                   joint_limits2, fk_out2, limit_idx,
                   heap_vars, viewer_vars>>

\* T = fk.get_end_effector_transform(joint_angles), as the caller or a
\* solver holding this instance calls it.
CallGetEndEffectorTransform ==
    /\ pc = "fk_idle"
    /\ fk_out' = EndEffectorOf(ForwardKinematicsCall(geometry, joint_limits, fk_arg))
    /\ fk_op' = "get_end_effector_transform"
    /\ fk_arg' = ArgumentAfterCall(fk_arg)
    /\ UNCHANGED <<pc, solver_vars, twin_vars, norm_vars, geometry, joint_limits,
                   joint_limits2, fk_out2, limit_idx, fk_first,
                   heap_vars, viewer_vars>>

\* positions = fk.get_joint_positions(joint_angles)
CallGetJointPositions ==
    /\ pc = "fk_idle"
    /\ fk_out' = JointPositionsOf(ForwardKinematicsCall(geometry, joint_limits, fk_arg))
    /\ fk_op' = "get_joint_positions"
    /\ fk_arg' = ArgumentAfterCall(fk_arg)
    /\ UNCHANGED <<pc, solver_vars, twin_vars, norm_vars, geometry, joint_limits,
                   joint_limits2, fk_out2, limit_idx, fk_first,
                   heap_vars, viewer_vars>>

\* fk.normalize_joint_angles(joint_angles): a new array is returned.
CallNormalizeJointAngles ==
    /\ pc = "fk_idle"
    /\ fk_out' = Returned(normalize_joint_angles(fk_arg))
    /\ fk_op' = "normalize_joint_angles"
    /\ UNCHANGED <<pc, solver_vars, twin_vars, norm_vars, geometry, joint_limits,
                   joint_limits2, fk_arg, fk_out2, limit_idx, fk_first,
                   heap_vars, viewer_vars>>

\* fk.check_joint_limits(joint_angles): entry into the for loop.
CallCheckJointLimits ==
    /\ pc = "fk_idle"
    /\ limit_idx' = 0
    /\ fk_op' = "check_joint_limits"
    /\ fk_out' = None
    /\ pc' = "fk_limits"
    /\ UNCHANGED <<solver_vars, twin_vars, norm_vars, geometry, joint_limits,
                   joint_limits2, fk_arg, fk_out2, fk_first,
                   heap_vars, viewer_vars>>

\* One round of `for i, angle in enumerate(joint_angles)`:
\* lo, hi = self.joint_limits[i] raises IndexError past the last limit;
\* an angle out of range returns False; else the loop goes on.
LimitsStep ==
    /\ pc = "fk_limits"
    /\ limit_idx < Len(fk_arg)
    /\ IF limit_idx + 1 > Len(joint_limits)
       THEN /\ fk_out' = Raised("IndexError")
            /\ pc' = "fk_idle"
            /\ UNCHANGED limit_idx
       ELSE IF OutOfRange(fk_arg[limit_idx + 1], joint_limits[limit_idx + 1][1],
                          joint_limits[limit_idx + 1][2])
       THEN /\ fk_out' = Returned(FALSE)
            /\ pc' = "fk_idle"
            /\ UNCHANGED limit_idx
       ELSE /\ limit_idx' = limit_idx + 1
            /\ UNCHANGED <<pc, fk_out,
                   heap_vars, viewer_vars>>
    /\ UNCHANGED <<solver_vars, twin_vars, norm_vars, geometry, joint_limits,
                   joint_limits2, fk_arg, fk_op, fk_out2, fk_first,
                   heap_vars, viewer_vars>>

\* The loop ran through every entry: return True.
LimitsDone ==
    /\ pc = "fk_limits"
    /\ limit_idx >= Len(fk_arg)
    /\ fk_out' = Returned(TRUE)
    /\ pc' = "fk_idle"
    /\ UNCHANGED <<solver_vars, twin_vars, norm_vars, geometry, joint_limits,
                   joint_limits2, fk_arg, fk_op, fk_out2, limit_idx, fk_first,
                   heap_vars, viewer_vars>>

NextFk ==
    \/ CallOnOtherList
    \/ ConfigureLimits
    \/ CallForwardKinematics
    \/ CallGetEndEffectorTransform
    \/ CallGetJointPositions
    \/ CallNormalizeJointAngles
    \/ CallCheckJointLimits
    \/ LimitsStep
    \/ LimitsDone

SpecFk == InitFk /\ [][NextFk]_vars

\* ------------------------------------------------------------------------
\* solve_ik on a heap of arrays and lists: who holds which object
\* ------------------------------------------------------------------------

\* An unused object id.
Fresh(h) == IF DOMAIN h = {} THEN 1
            ELSE 1 + CHOOSE top \in DOMAIN h : \A id \in DOMAIN h : id <= top

\* An object holding the value v, no entry moved by the Jacobian's delta.
Obj(v) == [value |-> v, delta_on |-> {}]

\* Heap h with obj allocated, and the reference to it.
Alloc(h, obj) == [heap |-> h @@ (Fresh(h) :> obj), ref |-> Fresh(h)]

\* Heap h without the objects ids: locals that went out of scope.
Drop(h, ids) == [id \in (DOMAIN h) \ ids |-> h[id]]

\* A second name for the same object (np.asarray, or plain assignment).
ArrayAlias(h, id) == [heap |-> h, ref |-> id]

\* np.array(x, dtype=float): a new array with the contents of object id.
ArrayCopy(h, id) == Alloc(h, h[id])

\* _numerical_jacobian(q): for i in range(6): q_plus = np.array(q,
\* dtype=float); q_plus[i] += delta. Each q_plus is dropped when the name is
\* bound again or the call returns.
JacobianHeap(h, q_ref) ==
    LET after[i \in 0..6] ==
            IF i = 0 THEN h
            ELSE LET q_plus == ArrayCopy(after[i - 1], q_ref)
                     written == [q_plus.heap EXCEPT ![q_plus.ref].delta_on = @ \cup {i}]
                 IN IF q_plus.ref = q_ref THEN written ELSE Drop(written, {q_plus.ref})
    IN after[6]

\* The value of q + dq for the iterate value qv: the solution near it, if
\* the target has one.
UpdateValue(T_des, qv) ==
    LET out == OutcomesNear(T_des, qv) \ {None}
    IN IF out = {} THEN qv ELSE CHOOSE p \in out : TRUE

\* How many solve_ik calls the caller makes.
MaxHeapCalls == 2

\* The variables the heap view does not use.
heap_frame == <<T_desired, seeds, q, result, solutions, conv_met, verified, single_calls,
                any_found, jacobians, nan_seen, twin_vars, norm_vars, fk_vars, viewer_vars>>

\* The poses the caller asks for: the Rear preset, and one out of reach.
HeapTargets == {get_end_effector_transform(configs[4]), UnreachablePose}

\* The caller holds one pose array T.
InitHeap ==
    /\ pc = "heap_idle"
    /\ SolverIdle
    /\ TwinIdle
    /\ NormIdle
    /\ FkIdle
    /\ ViewerIdle
    /\ \E T \in HeapTargets : heap = (1 :> Obj(T))
    /\ refs = [target |-> 1, seeds |-> <<>>, seed |-> 0, iterate |-> 0, result |-> 0,
               solutions |-> <<>>, returned |-> <<>>, earlier |-> <<>>,
               first_values |-> <<>>]

\* solve_ik(T): solutions = []; seeds = self._generate_seeds() builds 32
\* new lists. The caller still holds the list of an earlier call.
HeapSolveIk ==
    /\ pc = "heap_idle"
    /\ calls < MaxHeapCalls
    /\ \E values \in {SeedsFrom(RngAtCall(rng))} :
          /\ heap' = heap @@ [id \in { Fresh(heap) + k - 1 : k \in 1..Len(values) } |->
                                 Obj(values[id - Fresh(heap) + 1])]
          /\ refs' = [refs EXCEPT !.seeds = [k \in 1..Len(values) |-> Fresh(heap) + k - 1],
                                  !.solutions = <<>>,
                                  !.returned = <<>>,
                                  !.earlier = refs.earlier \o refs.returned]
    /\ rng' = RngAfterVectors(RngAtCall(rng), NumRandomSeeds)
    /\ seed_idx' = 0
    /\ pc' = "heap_for_seed"
    /\ UNCHANGED <<iteration, calls, heap_frame>>

\* _solve_single(T_desired, seed): q = np.array(q_init, dtype=float)
HeapStartSingle ==
    /\ pc = "heap_for_seed"
    /\ seed_idx < Len(refs.seeds)
    /\ seed_idx' = seed_idx + 1
    /\ \E copy \in {ArrayCopy(heap, refs.seeds[seed_idx + 1])} :
          /\ heap' = copy.heap
          /\ refs' = [refs EXCEPT !.seed = refs.seeds[seed_idx + 1],
                                  !.iterate = copy.ref]
    /\ iteration' = 0
    /\ pc' = "heap_iter"
    /\ UNCHANGED <<rng, calls, heap_frame>>

\* An iteration that meets the convergence test: return q, or None when
\* _verify rejects it.
HeapIterReturn ==
    /\ pc = "heap_iter"
    /\ LoopRuns(iteration)
    /\ \E outcome \in ConvergedOutcome(heap[refs.target].value, heap[refs.iterate].value) :
          refs' = [refs EXCEPT !.result = IF outcome = None THEN 0 ELSE refs.iterate]
    /\ pc' = "heap_got"
    /\ UNCHANGED <<heap, rng, seed_idx, iteration, calls, heap_frame>>

\* An iteration that does not: J = self._numerical_jacobian(q)
HeapJacobian ==
    /\ pc = "heap_iter"
    /\ LoopRuns(iteration)
    /\ ConvergedOutcome(heap[refs.target].value, heap[refs.iterate].value) = {}
    /\ heap' = JacobianHeap(heap, refs.iterate)
    /\ pc' = "heap_update"
    /\ UNCHANGED <<refs, rng, seed_idx, iteration, calls, heap_frame>>

\* q = q + dq: the sum is a new array, the name q is bound to it.
HeapUpdate ==
    /\ pc = "heap_update"
    /\ \E sum \in {Alloc(heap, Obj(UpdateValue(heap[refs.target].value,
                                               heap[refs.iterate].value)))} :
          /\ heap' = IF refs.iterate = refs.seed THEN sum.heap
                     ELSE Drop(sum.heap, {refs.iterate})
          /\ refs' = [refs EXCEPT !.iterate = sum.ref]
    /\ iteration' = iteration + 1
    /\ pc' = "heap_iter"
    /\ UNCHANGED <<rng, seed_idx, calls, heap_frame>>

\* The loop ran out: return None.
HeapExhausted ==
    /\ pc = "heap_iter"
    /\ ~LoopRuns(iteration)
    /\ refs' = [refs EXCEPT !.result = 0]
    /\ pc' = "heap_got"
    /\ UNCHANGED <<heap, rng, seed_idx, iteration, calls, heap_frame>>

\* if result is not None: result = normalize_joint_angles(result) works on a
\* copy; solutions.append(list(result)) appends a new list. The locals of
\* _solve_single and the normalized array are dropped.
HeapKeep ==
    /\ pc = "heap_got"
    /\ refs.result # 0
    /\ \E normalized \in {ArrayCopy(heap, refs.result)} :
          \E written \in {[normalized.heap EXCEPT ![normalized.ref].value =
                               normalize_joint_angles(@)]} :
              \E kept \in {Alloc(written, Obj(written[normalized.ref].value))} :
                  LET garbage == {refs.iterate, normalized.ref} \ {refs.seed}
                  IN IF IsNew(written[normalized.ref].value,
                              [k \in 1..Len(refs.solutions) |->
                                  written[refs.solutions[k]].value])
                     THEN /\ heap' = Drop(kept.heap, garbage)
                          /\ refs' = [refs EXCEPT !.solutions = Append(@, kept.ref),
                                                  !.seed = 0, !.iterate = 0,
                                                  !.result = 0]
                     ELSE /\ heap' = Drop(written, garbage)
                          /\ refs' = [refs EXCEPT !.seed = 0, !.iterate = 0,
                                                  !.result = 0]
    /\ iteration' = 0
    /\ pc' = "heap_for_seed"
    /\ UNCHANGED <<rng, seed_idx, calls, heap_frame>>

\* result is None: the locals of _solve_single are dropped.
HeapSkip ==
    /\ pc = "heap_got"
    /\ refs.result = 0
    /\ heap' = Drop(heap, {refs.iterate} \ {refs.seed})
    /\ refs' = [refs EXCEPT !.seed = 0, !.iterate = 0]
    /\ iteration' = 0
    /\ pc' = "heap_for_seed"
    /\ UNCHANGED <<rng, seed_idx, calls, heap_frame>>

\* return solutions: the caller holds the solutions, the seeds are dropped.
HeapReturn ==
    /\ pc = "heap_for_seed"
    /\ seed_idx >= Len(refs.seeds)
    /\ heap' = Drop(heap, { refs.seeds[k] : k \in 1..Len(refs.seeds) })
    /\ refs' = [refs EXCEPT !.seeds = <<>>,
                            !.returned = refs.solutions,
                            !.solutions = <<>>,
                            !.first_values =
                                IF calls = 0
                                THEN [k \in 1..Len(refs.solutions) |->
                                         heap[refs.solutions[k]].value]
                                ELSE @]
    /\ calls' = calls + 1
    /\ pc' = "heap_idle"
    /\ UNCHANGED <<rng, seed_idx, iteration, heap_frame>>

\* The caller writes to one entry of one solution it was returned, once per
\* returned list.
CallerMutates ==
    /\ pc = "heap_idle"
    /\ \A k \in 1..Len(refs.returned) : heap[refs.returned[k]].value[1] \in (-Pi)..Pi
    /\ \E k \in 1..Len(refs.returned) :
          heap' = [heap EXCEPT ![refs.returned[k]].value[1] = @ + 2 * TwoPi]
    /\ UNCHANGED <<pc, refs, rng, seed_idx, iteration, calls, heap_frame>>

NextHeap ==
    \/ HeapSolveIk
    \/ HeapStartSingle
    \/ HeapIterReturn
    \/ HeapJacobian
    \/ HeapUpdate
    \/ HeapExhausted
    \/ HeapKeep
    \/ HeapSkip
    \/ HeapReturn
    \/ CallerMutates

SpecHeap == InitHeap /\ [][NextHeap]_vars

\* ------------------------------------------------------------------------
\* The viewer's handlers, in any order
\* ------------------------------------------------------------------------

InitViewer ==
    /\ pc = "viewer"
    /\ SolverIdle
    /\ TwinIdle
    /\ NormIdle
    /\ FkIdle
    /\ HeapIdle
    /\ ViewerIdle

\* The user drags one slider: valueChanged, on_slider_changed(joint_idx,
\* value).
UserMovesSlider ==
    /\ pc = "viewer"
    /\ \E move \in UserMoves :
          /\ sliders[move[1]] # move[2]
          /\ sliders' = [sliders EXCEPT ![move[1]] = move[2]]
          /\ view_angles' = [view_angles EXCEPT ![move[1]] = AngleOfSlider(move[2])]
          /\ view_op' = [name |-> "on_slider_changed", idx |-> move[1], pose_of |-> <<>>]
    /\ UNCHANGED <<pc, solver_vars, twin_vars, norm_vars, fk_vars, heap_vars,
                   ik_solutions, radio_ids, solve_count>>

\* load_preset(angles_deg): sliders[i].setValue(int(angle_deg * 10))
LoadPreset ==
    /\ pc = "viewer"
    /\ \E angles_deg \in Presets :
          \E set \in {SetValues(sliders, view_angles,
                                [i \in 1..6 |-> angles_deg[i] * 10])} :
              /\ sliders' = set.sliders
              /\ view_angles' = set.angles
    /\ view_op' = [name |-> "load_preset", idx |-> -1, pose_of |-> <<>>]
    /\ UNCHANGED <<pc, solver_vars, twin_vars, norm_vars, fk_vars, heap_vars,
                   ik_solutions, radio_ids, solve_count>>

\* calculate_ik_solutions: T_current is the wrist_3 pose of
\* self.joint_angles; a raising solve_ik ends in the except branch before
\* anything is assigned; otherwise ik_solutions is replaced and the buttons
\* rebuilt. button(0).setChecked(True) emits no buttonClicked.
CalculateIk ==
    /\ pc = "viewer"
    /\ solve_count < MaxSolves
    /\ solve_count' = solve_count + 1
    /\ \E ret \in SolveIkReturns(view_angles) :
          IF ret.raised
          THEN /\ view_op' = [name |-> "calculate_ik_raised", idx |-> -1,
                              pose_of |-> view_angles]
               /\ UNCHANGED <<ik_solutions, radio_ids>>
          ELSE /\ ik_solutions' = ret.value
               /\ radio_ids' = ButtonsRebuilt(radio_ids, ret.value)
               /\ view_op' = [name |-> "calculate_ik", idx |-> -1,
                              pose_of |-> view_angles]
    /\ UNCHANGED <<pc, solver_vars, twin_vars, norm_vars, fk_vars, heap_vars,
                   view_angles, sliders>>

\* on_solution_selected(button): idx = self.solution_buttons.id(button), -1
\* for a button that is not in the group.
SelectSolution ==
    /\ pc = "viewer"
    /\ \E idx \in radio_ids \cup {-1, Len(ik_solutions)} :
          /\ IF idx >= 0 /\ idx < Len(ik_solutions)
             THEN \E set \in {SetValues(sliders, view_angles,
                                        [i \in 1..6 |->
                                            SliderValueOf(ik_solutions[idx + 1][i])])} :
                      /\ sliders' = set.sliders
                      /\ view_angles' = set.angles
             ELSE UNCHANGED <<sliders, view_angles>>
          /\ view_op' = [name |-> "on_solution_selected", idx |-> idx, pose_of |-> <<>>]
    /\ UNCHANGED <<pc, solver_vars, twin_vars, norm_vars, fk_vars, heap_vars,
                   ik_solutions, radio_ids, solve_count>>

NextViewer ==
    \/ UserMovesSlider
    \/ LoadPreset
    \/ CalculateIk
    \/ SelectSolution

SpecViewer == InitViewer /\ [][NextViewer]_vars

\* ------------------------------------------------------------------------
\* Properties
\* ------------------------------------------------------------------------

\* The relation SingleOutcomes holds every value the iteration of
\* _solve_single returns (checked under Spec).
OutcomesCoverSingle ==
    pc = "got" => result \in SingleOutcomes(T_desired, seeds[seed_idx])

\* C1, in a state where _solve_single has returned: a joint vector is
\* returned only from an iteration within the cap whose iterate met the
\* convergence test and passed _verify, and it is that iterate; when the
\* convergence test was met and _verify was false the return value is None.
C1_Returned ==
    pc = "got" =>
        /\ result # None =>
              /\ conv_met /\ verified
              /\ result = q
              /\ iteration < max_iter
              /\ \E T_current \in {get_end_effector_transform(q)} :
                    TRUE \in ConvergenceTest(T_desired, T_current)
              /\ _verify(q, T_desired)
        /\ conv_met => verified = _verify(q, T_desired)
        /\ (conv_met /\ ~verified) => result = None

\* C1, as a step: the iteration that meets the convergence test returns at
\* once (same iterate, same iteration count), and a None result leaves the
\* solutions list as it is.
C1_Step ==
    /\ (pc = "iter" /\ pc' = "got" /\ conv_met') => (q' = q /\ iteration' = iteration)
    /\ (pc = "got" /\ result = None) => solutions' = solutions

\* C1: _solve_single returns q only if q met the convergence test and
\* _verify(q, T_desired) in the returning iteration; convergence with a
\* failed _verify returns None immediately and adds nothing to the list.
C1_OnlyVerifiedReturned == [](C1_Returned) /\ [][C1_Step]_vars

\* C1 witness: a search met the convergence test, _verify was false and
\* None came back.
C1_Witness == pc = "got" /\ conv_met /\ ~verified /\ result = None

\* C2: every entry of the solutions list (as kept, after normalization)
\* has an end-effector pose within the verification tolerances of the
\* target, all through the call and in the returned list.
C2_SolutionsMatchTarget ==
    \A k \in 1..Len(solutions) :
        \E T_actual \in {get_end_effector_transform(solutions[k])} :
            /\ \E dp \in {PositionError(T_actual, T_desired)} : NormBelow(dp, pos_tol)
            /\ \E dR \in {RotationDifference(T_actual, T_desired)} : NormBelow(dR, rot_tol)

\* C2 witness: a returned list of two solutions, one of them with the base
\* joint at -pi, which no iterate holds before normalization.
C2_Witness ==
    /\ pc = "done"
    /\ Len(solutions) = 2
    /\ \E k \in 1..2 : solutions[k][1] = -Pi /\ solutions[k] \notin IterPool

\* C4: at every point of the seed loop and in the returned list no two
\* distinct entries are within 0.05 rad of each other in all six joints.
C4_NoCloseEntries ==
    \A i, j \in 1..Len(solutions) :
        i # j =>
            \E joint \in 1..6 :
                Abs(solutions[i][joint] - solutions[j][joint]) * EighthTurnRad5
                    >= dedup_threshold

\* C4 witness: two solutions are kept and a further result, close to one
\* of them, has come back from a later seed.
C4_Witness ==
    /\ pc = "got"
    /\ result # None
    /\ Len(solutions) = 2
    /\ \E k \in 1..2 :
          \A joint \in 1..6 :
              Abs(NormalizeAngle(result[joint]) - solutions[k][joint]) * EighthTurnRad5
                  < dedup_threshold

\* solutions is a prefix of the list longer.
IsPrefix(shorter, longer) ==
    /\ Len(shorter) <= Len(longer)
    /\ \A k \in 1..Len(shorter) : longer[k] = shorter[k]

\* res is within the dedup threshold of some entry of sols.
CloseToKept(res, sols) ==
    \E k \in 1..Len(sols) :
        \A joint \in 1..6 :
            Abs(res[joint] - sols[k][joint]) * EighthTurnRad5 < dedup_threshold

\* C5, as a step of a running call: the list only ever grows at its end,
\* by the normalized result of the seed just searched, and it does so
\* exactly when that result is not within the threshold of a kept entry.
C5_Step ==
    pc # "idle" =>
        /\ IsPrefix(solutions, solutions')
        /\ Len(solutions') <= Len(solutions) + 1
        /\ IF pc = "got" /\ result # None
              /\ ~CloseToKept([joint \in 1..6 |-> NormalizeAngle(result[joint])], solutions)
           THEN solutions' = Append(solutions,
                                    [joint \in 1..6 |-> NormalizeAngle(result[joint])])
           ELSE solutions' = solutions

\* C5: the list is the subsequence, in seed order, of the normalized
\* results not within the threshold of an earlier kept one; an entry once
\* appended is never removed, replaced or reordered.
C5_FirstFoundFirstKept == [][C5_Step]_vars

\* C5 witness: a returned list of two entries that is not in ascending
\* order of the base joint.
C5_Witness ==
    /\ pc = "done"
    /\ Len(solutions) = 2
    /\ solutions[1][1] > solutions[2][1]

\* C8: the loop index never passes max_iter, a search that returns without
\* having met the convergence test has run max_iter iterations and returns
\* None, every seed taken is one call of _solve_single, and solve_ik
\* returns after exactly 32 calls.
C8_BoundedTermination ==
    /\ iteration \in 0..max_iter
    /\ (pc = "got" /\ ~conv_met) => (iteration = max_iter /\ result = None)
    /\ pc \in {"for_seed", "iter", "got", "done"} =>
          (single_calls = seed_idx /\ seed_idx <= 32 /\ Len(seeds) = 32)
    /\ pc = "done" => single_calls = 32

\* C8 witness: a search has reached the cap and returned None.
C8_Witness == pc = "got" /\ iteration = max_iter /\ ~conv_met /\ result = None

\* C9, as a step: a None result changes nothing in the list and the loop
\* goes on to the seeds not yet taken.
C9_Step ==
    (pc = "got" /\ result = None) =>
        /\ solutions' = solutions
        /\ pc' = "for_seed"
        /\ seed_idx' = seed_idx
        /\ seeds' = seeds

\* C9, at the return: every seed was searched, and when every search
\* returned None the list is empty.
C9_Returned ==
    pc = "done" =>
        /\ single_calls = Len(seeds)
        /\ ~any_found => solutions = <<>>

\* C9: a seed whose search yields None adds nothing and does not stop the
\* loop; when all seeds fail solve_ik returns the empty list.
C9_SkipAndContinue == [](C9_Returned) /\ [][C9_Step]_vars

\* C9 witness: solve_ik returned the empty list for the unreachable pose
\* after all 32 searches returned None.
C9_Witness ==
    /\ pc = "done"
    /\ T_desired = UnreachablePose
    /\ ~any_found
    /\ solutions = <<>>
    /\ single_calls = 32

\* C10: solve_ik never ends in an exception, whatever the target; what it
\* returns is a list of joint vectors.
C10_NeverRaises ==
    /\ pc # "raised"
    /\ pc = "done" => \A k \in 1..Len(solutions) : Len(solutions[k]) = 6

\* C10 witness: solve_ik returned for a target with a degenerate rotation
\* block, after damped solves with possibly rank-deficient Jacobians.
C10_Witness ==
    /\ pc = "done"
    /\ T_desired \in DegeneratePoses
    /\ single_calls = 32

\* C6: whatever calls the two instances completed before, given the same
\* target both generate the same 32 seeds (the 8 structured ones, then 24
\* drawn from a generator created with seed 42) and hold the same solutions
\* in the same order all through the call and at its return.
C6_Deterministic ==
    pc \in {"twin_for_seed", "twin_done"} =>
        /\ seeds = seeds2
        /\ Len(seeds) = 32
        /\ SubSeq(seeds, 1, 8) = configs
        /\ solutions = solutions2
        /\ rng = rng2

\* C6 witness: two instances with different numbers of earlier calls have
\* returned the same two solutions.
C6_Witness ==
    /\ pc = "twin_done"
    /\ calls # calls2
    /\ Len(solutions) = 2
    /\ solutions2 = solutions

\* C7 as stated: every output component lies in the half-open interval
\* (-pi, pi].
C7_HalfOpenInterval ==
    pc = "norm_done" =>
        \A i \in 1..Len(angles_out) : -Pi < angles_out[i] /\ angles_out[i] <= Pi

\* C7 amended: every output component lies in the closed interval
\* [-pi, pi] and is its input shifted by a whole number of steps of 2*pi;
\* an input already in [-pi, pi], -pi itself included, is returned
\* unchanged.
C7_ClosedInterval ==
    pc = "norm_done" =>
        /\ Len(angles_out) = Len(angles_in)
        /\ \A i \in 1..Len(angles_out) :
              /\ -Pi <= angles_out[i] /\ angles_out[i] <= Pi
              /\ (angles_out[i] - angles_in[i]) % TwoPi = 0
              /\ (-Pi <= angles_in[i] /\ angles_in[i] <= Pi) =>
                    angles_out[i] = angles_in[i]

\* C7 witness: an input of exactly -pi came back as -pi, next to an angle
\* that was shifted.
C7_Witness ==
    /\ pc = "norm_done"
    /\ \E i \in 1..Len(angles_in) : angles_in[i] = -Pi /\ angles_out[i] = -Pi
    /\ \E i \in 1..Len(angles_in) : angles_in[i] > Pi /\ angles_out[i] # angles_in[i]

\* One of the four methods that take six joint angles has completed.
SixAngleMethodDone ==
    /\ pc = "fk_idle"
    /\ fk_op \in {"forward_kinematics", "get_end_effector_transform",
                  "get_joint_positions", "check_joint_limits"}

\* C11 as stated: whenever the list passed to forward_kinematics,
\* get_end_effector_transform, get_joint_positions or check_joint_limits
\* does not have exactly six entries, fewer or more, the call raises.
C11_WrongCountRaises ==
    (SixAngleMethodDone /\ Len(fk_arg) # 6) => fk_out.raised

\* C12: on six angles check_joint_limits returns, and returns True exactly
\* when every angle lies within its joint's limits, bounds included; when it
\* returns False the loop stopped at the first joint out of range; with the
\* default limits it accepts exactly the vectors within [-2*pi, 2*pi].
C12_LimitsInclusive ==
    (pc = "fk_idle" /\ fk_op = "check_joint_limits" /\ Len(fk_arg) = 6) =>
        /\ ~fk_out.raised
        /\ fk_out.value =
              (\A i \in 1..6 :
                  joint_limits[i][1] <= fk_arg[i] /\ fk_arg[i] <= joint_limits[i][2])
        /\ ~fk_out.value =>
              /\ \A i \in 1..limit_idx :
                    joint_limits[i][1] <= fk_arg[i] /\ fk_arg[i] <= joint_limits[i][2]
              /\ \/ fk_arg[limit_idx + 1] < joint_limits[limit_idx + 1][1]
                 \/ fk_arg[limit_idx + 1] > joint_limits[limit_idx + 1][2]
        /\ joint_limits = DefaultLimits =>
              fk_out.value = (\A i \in 1..6 : -TwoPi <= fk_arg[i] /\ fk_arg[i] <= TwoPi)

\* C12 witness: check_joint_limits returned True for six angles one of
\* which sits exactly on the upper bound 2*pi of the default limits.
C12_Witness ==
    /\ pc = "fk_idle"
    /\ fk_op = "check_joint_limits"
    /\ Len(fk_arg) = 6
    /\ joint_limits = DefaultLimits
    /\ fk_out.value = TRUE
    /\ \E i \in 1..6 : fk_arg[i] = TwoPi

\* C13: two instances that differ in their joint_limits return the same
\* link poses from forward_kinematics for the same joint angles, and hold
\* the same solutions in the same order all through solve_ik for the same
\* target: no result is dropped on one side for lying outside its limits.
C13_LimitsNotRead ==
    /\ fk_op = "forward_kinematics" => fk_out = fk_out2
    /\ pc \in {"twin_for_seed", "twin_done"} => solutions = solutions2

\* C13 witness: both instances returned from solve_ik with a solution that
\* violates the limits of the first and not those of the second, after
\* forward_kinematics calls that returned poses for angles outside the
\* first instance's limits.
C13_Witness ==
    /\ pc = "twin_done"
    /\ joint_limits # joint_limits2
    /\ fk_op = "forward_kinematics"
    /\ ~WithinLimits(fk_arg, joint_limits)
    /\ \E k \in 1..Len(solutions) :
          /\ ~WithinLimits(solutions[k], joint_limits)
          /\ WithinLimits(solutions[k], joint_limits2)
          /\ solutions2[k] = solutions[k]

\* The local transform of joint n for joint angles joint_angles, from the
\* URDF joint table: fixed origin transform times joint rotation.
LocalOfJoint(joint_angles, n) ==
    MatMul(CreateTransform(JointTable[n].xyz, JointTable[n].rpy),
           IF JointTable[n].axis = "z" THEN RotZ(joint_angles[n])
           ELSE IF JointTable[n].axis = "y" THEN RotY(joint_angles[n])
           ELSE RotX(joint_angles[n]))

\* C14: for six joint angles forward_kinematics returns exactly the seven
\* poses base, shoulder, upper_arm, forearm, wrist_1, wrist_2, wrist_3; base
\* is the identity, every later pose is the previous one times the local
\* transform of its joint (which reads that joint's own angle), and
\* get_end_effector_transform returns the wrist_3 pose.
C14_ChainOfSevenPoses ==
    /\ (pc = "fk_idle" /\ fk_op = "forward_kinematics" /\ Len(fk_arg) = 6) =>
          /\ ~fk_out.raised
          /\ DOMAIN fk_out.value = {"base", "shoulder", "upper_arm", "forearm",
                                    "wrist_1", "wrist_2", "wrist_3"}
          /\ fk_out.value["base"] = Eye4
          /\ \A n \in 1..6 :
                fk_out.value[LinkNames[n + 1]] =
                    MatMul(fk_out.value[LinkNames[n]], LocalOfJoint(fk_arg, n))
    /\ (pc = "fk_idle" /\ fk_op = "get_end_effector_transform" /\ Len(fk_arg) = 6) =>
          /\ ~fk_out.raised
          /\ fk_out.value = forward_kinematics(fk_arg)[7]
          /\ fk_out.value = get_end_effector_transform(fk_arg)

\* C14 witness: forward_kinematics returned for six angles of which the
\* sixth alone is not zero, and the wrist_3 pose differs from wrist_2's in
\* its rotation.
C14_Witness ==
    /\ pc = "fk_idle"
    /\ fk_op = "forward_kinematics"
    /\ Len(fk_arg) = 6
    /\ fk_arg[6] # 0
    /\ fk_arg[1] = 0
    /\ Rotation(fk_out.value["wrist_3"]) # Rotation(fk_out.value["wrist_2"])

\* The link origins of the home position, in 1e-5 m, base first.
HomeOrigins ==
    << <<0, 0, 0>>, <<0, 0, 15190>>, <<0, 11980, 15190>>, <<24365, 2730, 15190>>,
       <<45690, 2730, 15190>>, <<45690, 11235, 15190>>, <<45690, 11235, 6655>> >>

\* C15: forward_kinematics([0,0,0,0,0,0]) puts the link origins at
\* shoulder (0, 0, 0.1519), upper_arm (0, 0.1198, 0.1519), forearm
\* (0.24365, 0.0273, 0.1519), wrist_1 (0.4569, 0.0273, 0.1519), wrist_2
\* (0.4569, 0.11235, 0.1519), wrist_3 (0.4569, 0.11235, 0.06655), and the
\* end-effector orientation is a half turn about Y; get_joint_positions
\* returns the same origins.
C15_HomePosition ==
    /\ (pc = "fk_idle" /\ fk_op = "forward_kinematics" /\ fk_arg = <<0, 0, 0, 0, 0, 0>>) =>
          /\ ~fk_out.raised
          /\ \A n \in 1..7 : Translation(fk_out.value[LinkNames[n]]) = HomeOrigins[n]
          /\ Rotation(fk_out.value["wrist_3"]) =
                << <<-Scale, 0, 0>>, <<0, Scale, 0>>, <<0, 0, -Scale>> >>
    /\ (pc = "fk_idle" /\ fk_op = "get_joint_positions" /\ fk_arg = <<0, 0, 0, 0, 0, 0>>) =>
          fk_out.value = HomeOrigins

\* C15 witness: forward_kinematics returned for the home position with the
\* wrist_3 origin at (0.4569, 0.11235, 0.06655).
C15_Witness ==
    /\ pc = "fk_idle"
    /\ fk_op = "forward_kinematics"
    /\ fk_arg = <<0, 0, 0, 0, 0, 0>>
    /\ Translation(fk_out.value["wrist_3"]) = <<45690, 11235, 6655>>

\* The determinant of a 3x3 block with entries in 1/Scale, in 1/Scale.
Det3(R) ==
    Round(R[1][1] * Round(R[2][2] * R[3][3] - R[2][3] * R[3][2])
          - R[1][2] * Round(R[2][1] * R[3][3] - R[2][3] * R[3][1])
          + R[1][3] * Round(R[2][1] * R[3][2] - R[2][2] * R[3][1]))

\* The identity block.
Eye3 == << <<Scale, 0, 0>>, <<0, Scale, 0>>, <<0, 0, Scale>> >>

\* T is a rigid transform: R * R^T = I and det R = +1 at the resolution of
\* the rotation entries, and the bottom row is [0, 0, 0, 1].
IsRigid(T) ==
    /\ \E R \in {Rotation(T)} :
          /\ MatMul3(R, Transpose3(R)) = Eye3
          /\ Det3(R) = Scale
    /\ T[4] = <<0, 0, 0, 1>>

\* C16: every one of the seven poses forward_kinematics returns has an
\* orthonormal rotation block of determinant +1 and the bottom row
\* [0, 0, 0, 1]; so has the pose get_end_effector_transform returns.
C16_PosesAreRigid ==
    /\ (pc = "fk_idle" /\ fk_op \in {"forward_kinematics", "other_forward_kinematics"}
            /\ ~fk_out.raised) =>
          \A n \in 1..7 : IsRigid(fk_out.value[LinkNames[n]])
    /\ (pc = "fk_idle" /\ fk_op = "get_end_effector_transform" /\ ~fk_out.raised) =>
          IsRigid(fk_out.value)

\* C16 witness: forward_kinematics returned poses for angles off the
\* quarter-turn grid, where the rotation entries are not all 0 or +-1.
C16_Witness ==
    /\ pc = "fk_idle"
    /\ fk_op = "forward_kinematics"
    /\ ~fk_out.raised
    /\ \E i \in 1..3 : fk_out.value["wrist_3"][i][1] \notin {0, Scale, -Scale}

\* C17, as a step: no method call changes the geometry attributes or the
\* caller's list, and joint_limits changes only when the caller assigns it.
C17_Step ==
    /\ geometry' = geometry
    /\ fk_arg' = fk_arg
    /\ joint_limits' # joint_limits => (fk_op' = "none" /\ pc = "fk_idle")

\* C17, at a return of forward_kinematics: the poses equal those the first
\* call on the same list returned, whatever calls were made in between.
C17_Repeat ==
    /\ geometry = Geometry
    /\ (pc = "fk_idle" /\ fk_op = "forward_kinematics" /\ ~fk_out.raised) =>
          /\ fk_first.arg = fk_arg
          /\ fk_first.poses = fk_out.value

\* C17: forward_kinematics changes neither the chain geometry, nor
\* joint_limits, nor its argument, and repeated calls with equal joint
\* angles return equal link poses regardless of the calls in between.
C17_PureAndRepeatable == [](C17_Repeat) /\ [][C17_Step]_vars

\* C17 witness: forward_kinematics returned a second time on the same list,
\* for angles outside [-pi, pi], after the limits were reassigned since its
\* first call.
C17_Witness ==
    /\ pc = "fk_idle"
    /\ fk_op = "forward_kinematics"
    /\ ~fk_out.raised
    /\ fk_first.limits # joint_limits
    /\ \E i \in 1..6 : fk_arg[i] > Pi

\* C18: the list solve_ik returns has at most 8 entries.
C18_AtMostEight == pc = "half_turn_done" => Len(solutions) <= 8

\* C19: in both axis-angle extractions an angle below the threshold gives
\* the zero vector with no division by sin(angle); at an iterate whose
\* rotation error against the target is the identity the orientation error
\* is zero, and solve_ik neither raises nor computes a NaN.
C19_DegenerateRotationGuard ==
    /\ ~nan_seen
    /\ pc # "raised"
    /\ \A col_angle \in JacobianAngles :
          col_angle < jacobian_epsilon =>
              AngularColumn(col_angle) =
                  [column_zero |-> TRUE, divided |-> FALSE, is_nan |-> FALSE]
    /\ (pc \in {"iter", "got"} /\ q # None) =>
          \A R_err \in {RotationError(T_desired, get_end_effector_transform(q))} :
              /\ R_err = [i \in 1..3 |-> [j \in 1..3 |-> IF i = j THEN Scale ELSE 0]]
                    => AngleBelowEpsilon(R_err)
              /\ AngleBelowEpsilon(R_err) =>
                    /\ AxisAngleError(R_err) =
                           [dw_zero |-> TRUE, divided |-> FALSE, is_nan |-> FALSE]
                    /\ RotErrBelow(R_err, tol * 5) = {TRUE}

\* C19 witness: _solve_single returned from an iterate whose rotation error
\* is the identity, and no NaN was computed on the way.
C19_Witness ==
    /\ pc = "got"
    /\ conv_met
    /\ result # None
    /\ iteration > 0
    /\ AngleBelowEpsilon(RotationError(T_desired, get_end_effector_transform(q)))
    /\ ~nan_seen

\* C20, as a step of _solve_single: the iteration that returns met the
\* convergence test on its iterate and leaves the iterate and the number of
\* Jacobian evaluations as they were; an iteration updates the iterate only
\* when the test on it failed, after one Jacobian evaluation.
C20_Step ==
    pc = "iter" =>
        /\ (pc' = "got" /\ conv_met') =>
              /\ TRUE \in ConvergenceTest(T_desired, get_end_effector_transform(q))
              /\ q' = q
              /\ jacobians' = jacobians
        /\ (q' # q \/ jacobians' # jacobians) =>
              /\ FALSE \in ConvergenceTest(T_desired, get_end_effector_transform(q))
              /\ jacobians' = jacobians + 1

\* C20, at the return of _solve_single: as many Jacobians were evaluated as
\* updates applied, and a seed that met the test in the first iteration
\* and passed _verify is returned as it was given, with neither.
C20_Returned ==
    /\ pc \in {"iter", "got"} => jacobians = iteration
    /\ (pc = "got" /\ conv_met /\ verified /\ iteration = 0) =>
          /\ result = seeds[seed_idx]
          /\ jacobians = 0

\* C20: in every iteration the convergence test is evaluated on the current
\* iterate before any Jacobian is computed or update applied; a seed that
\* already meets it and passes _verify is returned unchanged, with zero
\* updates and no Jacobian evaluation.
C20_TestBeforeUpdate == [](C20_Returned) /\ [][C20_Step]_vars

\* C20 witness: a seed met the test in iteration 0, passed _verify and was
\* returned.
C20_Witness ==
    /\ pc = "got"
    /\ conv_met
    /\ verified
    /\ iteration = 0
    /\ result = seeds[seed_idx]

\* The distance of two joint angles taken modulo a full turn.
TurnDistance(a, b) ==
    LET d == Abs(a - b) % TwoPi
    IN IF d > Pi THEN TwoPi - d ELSE d

\* C21: the list solve_ik returns holds no two entries that describe the
\* same arm configuration, i.e. whose per-joint differences modulo 2*pi
\* are all below the 0.05 rad threshold.
C21_NoSameConfiguration ==
    pc = "half_turn_done" =>
        \A i \in 1..Len(solutions) : \A k \in 1..Len(solutions) :
            i < k =>
                \E j \in 1..6 :
                    TurnDistance(solutions[i][j], solutions[k][j]) * EighthTurnRad5
                        >= dedup_threshold

\* The local transform of joint n at joint angle `angle` as the joint table
\* is stated: origin offset, origin pitch on joints 2 and 4 only, rotation
\* about Z for joints 1 and 5 and about Y for the others.
JointAsStated(n, angle) ==
    LET xyz == IF n = 1 THEN <<0, 0, d1>>
               ELSE IF n = 2 THEN <<0, shoulder_offset, 0>>
               ELSE IF n = 3 THEN <<0, elbow_offset, upper_arm_length>>
               ELSE IF n = 4 THEN <<0, 0, forearm_length>>
               ELSE IF n = 5 THEN <<0, d4 - elbow_offset - shoulder_offset, 0>>
               ELSE <<0, 0, wrist_2_length>>
        pitch == IF n \in {2, 4} THEN HalfPi ELSE 0
    IN MatMul(CreateTransform(xyz, <<0, pitch, 0>>),
              IF n \in {1, 5} THEN RotZ(angle) ELSE RotY(angle))

\* C22: in the poses forward_kinematics returns, each link's pose is the
\* previous link's pose times the stated origin transform of its joint
\* times a rotation about the stated axis by that joint's own angle, and
\* the instance's wrist_1_length is d4 - elbow_offset - shoulder_offset.
C22_JointTable ==
    /\ geometry.wrist_1_length
          = geometry.d4 - geometry.elbow_offset - geometry.shoulder_offset
    /\ (pc = "fk_idle" /\ fk_op = "forward_kinematics" /\ ~fk_out.raised) =>
          \A n \in 1..6 :
              fk_out.value[LinkNames[n + 1]] =
                  MatMul(fk_out.value[LinkNames[n]], JointAsStated(n, fk_arg[n]))

\* C22 witness: forward_kinematics returned for angles that turn the
\* shoulder-lift, elbow, wrist-1 and wrist-2 joints.
C22_Witness ==
    /\ pc = "fk_idle"
    /\ fk_op = "forward_kinematics"
    /\ ~fk_out.raised
    /\ \A n \in 2..5 : fk_arg[n] # 0

\* C26, as a step of _solve_single: the convergence branch is taken in
\* iterations 0..max_iter - 1 only, and once max_iter updates are applied
\* the search returns None whatever the final iterate is.
C26_Step ==
    pc = "iter" =>
        /\ (pc' = "got" /\ conv_met') => iteration \in 0..(max_iter - 1)
        /\ iteration = max_iter =>
              (pc' = "got" /\ result' = None /\ ~conv_met' /\ q' = q)

\* C26, at the return of _solve_single: a solution is returned after at most
\* max_iter - 1 updates.
C26_Returned ==
    (pc = "got" /\ result # None) => (iteration <= max_iter - 1 /\ jacobians <= max_iter - 1)

\* C26: the convergence test is applied to the seed and to the iterates of
\* updates 1..max_iter - 1; the iterate of the last update is never tested,
\* so a solution is returned after at most max_iter - 1 updates and None is
\* returned even if the final iterate meets the test and _verify.
C26_LastIterateUntested == [](C26_Returned) /\ [][C26_Step]_vars

\* C26 witness: the search returned None at the cap with a final iterate
\* that meets the convergence test and passes _verify.
C26_Witness ==
    /\ pc = "got"
    /\ iteration = max_iter
    /\ result = None
    /\ ConvergenceTest(T_desired, get_end_effector_transform(q)) = {TRUE}
    /\ _verify(q, T_desired)

\* C27: every entry of the list solve_ik builds and returns has exactly six
\* components, each within [-pi, pi], and so passes check_joint_limits
\* under the default limits of [-2*pi, 2*pi].
C27_SolutionsNormalized ==
    \A k \in 1..Len(solutions) :
        /\ Len(solutions[k]) = 6
        /\ \A j \in 1..6 : -Pi <= solutions[k][j] /\ solutions[k][j] <= Pi
        /\ WithinLimits(solutions[k], DefaultLimits)

\* C27 witness: solve_ik returned two solutions, one of them with the base
\* joint at -pi (the search ended a turn and a half further back).
C27_Witness ==
    /\ pc = "done"
    /\ Len(solutions) = 2
    /\ \E k \in 1..2 : solutions[k][1] = -Pi

\* C28, as a step: the call leaves the caller's sequence as it was.
C28_Step == angles_in' = angles_in

\* C28, at the return: the output has the length of the input, every
\* component is its input shifted by a whole number of turns, a component
\* already in [-pi, pi] is returned as it is, and normalizing the output
\* again changes nothing.
C28_Returned ==
    pc = "norm_done" =>
        /\ Len(angles_out) = Len(angles_in)
        /\ \A i \in 1..Len(angles_in) :
              /\ \E turns \in -3..3 : angles_out[i] = angles_in[i] + turns * TwoPi
              /\ (angles_in[i] \in (-Pi)..Pi) => angles_out[i] = angles_in[i]
        /\ normalize_joint_angles(angles_out) = angles_out

\* C28: normalize_joint_angles only shifts by whole turns, returns
\* components already in [-pi, pi] unchanged (so it is idempotent), keeps
\* the length, and does not modify the sequence it is given.
C28_WholeTurnsOnly == [](C28_Returned) /\ [][C28_Step]_vars

\* C28 witness: a call returned for an input with one component more than a
\* turn and a half out of range and one component in range.
C28_Witness ==
    /\ pc = "norm_done"
    /\ \E i \in 1..Len(angles_in) : Abs(angles_in[i]) > Pi + TwoPi
    /\ \E i \in 1..Len(angles_in) : Abs(angles_in[i]) < Pi

\* C24, as a step: a button id outside 0..len(ik_solutions)-1 changes no
\* slider and no joint angle.
C24_Step ==
    (view_op'.name = "on_solution_selected"
        /\ ~(view_op'.idx \in 0..(Len(ik_solutions) - 1))) =>
        (sliders' = sliders /\ view_angles' = view_angles)

\* C24, after the handler: the six joint angles are the six angles of the
\* selected solution.
C24_Selected ==
    (view_op.name = "on_solution_selected"
        /\ view_op.idx \in 0..(Len(ik_solutions) - 1)) =>
        view_angles = ik_solutions[view_op.idx + 1]

\* C24: after on_solution_selected with a valid index the viewer's joint
\* angles equal the angles of ik_solutions[k]; an id out of range changes
\* no slider and no joint angle.
C24_PickedSolutionShown == [](C24_Selected) /\ [][C24_Step]_vars

\* C25, as a step: calculate_ik_solutions solves for the pose of the current
\* joint angles and leaves joint angles and sliders as they are; when
\* solve_ik raises, the solutions and the buttons stay too; nothing but a
\* successful calculation replaces ik_solutions.
C25_Step ==
    /\ solve_count' # solve_count =>
          /\ view_op'.name \in {"calculate_ik", "calculate_ik_raised"}
          /\ view_op'.pose_of = view_angles
          /\ view_angles' = view_angles
          /\ sliders' = sliders
          /\ view_op'.name = "calculate_ik_raised" =>
                (ik_solutions' = ik_solutions /\ radio_ids' = radio_ids)
    /\ ik_solutions' # ik_solutions =>
          (solve_count' # solve_count /\ view_op'.name = "calculate_ik")

\* C25, in every state: the buttons of the group are one per entry of
\* ik_solutions, with the ids 0..len(ik_solutions)-1.
C25_Buttons ==
    /\ radio_ids = { k - 1 : k \in 1..Len(ik_solutions) }
    /\ Cardinality(radio_ids) = Len(ik_solutions)

\* C25: after any sequence of slider changes, preset loads, IK calculations
\* (successful or raising) and solution selections, the radio buttons are
\* exactly one per entry of ik_solutions with ids 0..len-1, and
\* calculate_ik_solutions solves for the pose of the current joint angles
\* and leaves joint angles and sliders unchanged.
C25_ButtonsMatchSolutions == [](C25_Buttons) /\ [][C25_Step]_vars

\* C25 witness: a calculation raised after an earlier one had returned two
\* solutions and the user had selected one and moved a slider since.
C25_Witness ==
    /\ view_op.name = "calculate_ik_raised"
    /\ Len(ik_solutions) = 2
    /\ radio_ids = {0, 1}
    /\ sliders[1] = slider_min
    /\ sliders[3] # 900
\* The objects the caller holds from earlier calls after this step.
HeldValues(h, ids) == [k \in 1..Len(ids) |-> h[ids[k]].value]

\* The objects a call returned are distinct from one another, from those of
\* earlier calls and from the target.
C23_Fresh ==
    LET held == refs.earlier \o refs.returned \o refs.solutions
    IN /\ \A k1, k2 \in 1..Len(held) : k1 # k2 => held[k1] # held[k2]
       /\ \A k \in 1..Len(held) :
              /\ held[k] # refs.target
              /\ held[k] \notin { refs.seeds[n] : n \in 1..Len(refs.seeds) }
              /\ held[k] \notin {refs.seed, refs.iterate}

\* Inside solve_ik the target array, the FK geometry and the solutions of
\* earlier calls stay as they were; a seed keeps its contents until
\* solve_ik returns; the Jacobian leaves the iterate alone; a caller's write
\* to one returned solution changes that object only; and a later call
\* returns the values the first call returned.
C23_Step ==
    /\ 1 \in DOMAIN heap' /\ heap'[refs.target] = heap[refs.target]
    /\ geometry' = geometry
    /\ (pc # "heap_idle" \/ pc' # "heap_idle") =>
          \A k \in 1..Len(refs.earlier) :
              /\ refs.earlier[k] \in DOMAIN heap'
              /\ heap'[refs.earlier[k]] = heap[refs.earlier[k]]
    /\ (pc # "heap_idle" /\ pc' # "heap_idle") =>
          \A k \in 1..Len(refs.seeds) :
              /\ refs.seeds[k] \in DOMAIN heap'
              /\ heap'[refs.seeds[k]] = heap[refs.seeds[k]]
    /\ (pc = "heap_iter" /\ pc' = "heap_update") =>
          /\ refs.iterate \in DOMAIN heap'
          /\ heap'[refs.iterate] = heap[refs.iterate]
    /\ (pc = "heap_idle" /\ pc' = "heap_idle") =>
          Cardinality({ id \in DOMAIN heap : heap'[id] # heap[id] }) <= 1
    /\ (pc = "heap_for_seed" /\ pc' = "heap_idle" /\ calls' > 1) =>
          HeldValues(heap', refs'.returned) = refs.first_values
    /\ C23_Fresh'

\* C23: solve_ik leaves T_desired and the FK geometry unchanged,
\* _solve_single and _numerical_jacobian never modify the seed or the
\* iterate passed to them, and each returned solution is a fresh list:
\* mutating a returned solution changes no other returned solution and no
\* later solve_ik result.
C23_NoSideEffects == [][C23_Step]_vars

\* A second call has returned after the caller wrote to a solution of the
\* first.
C23_Witness ==
    /\ pc = "heap_idle"
    /\ calls = 2
    /\ Len(refs.returned) >= 2
    /\ \E k \in 1..Len(refs.earlier) : heap[refs.earlier[k]].value[1] \notin (-Pi)..Pi
    /\ HeldValues(heap, refs.returned) = refs.first_values
====
